---- MODULE Spec2Model ----
(***************************************************************************)
(* Pink slip management system (src/app.py): the bulk import of rows into  *)
(* tickets and line items (upload), manual entry (add_pink_slip), the      *)
(* field normalizers and the category resolver they use, and the SQLite    *)
(* store behind them.                                                      *)
(*                                                                         *)
(* Text is modelled as a sequence of one-character strings, so that        *)
(* strip, lower, upper, slicing, prefix and substring tests are computed   *)
(* as Python computes them.  A float is a record [nan, v]: v an integer    *)
(* number of currency units, nan the IEEE not-a-number flag.               *)
(***************************************************************************)
EXTENDS Integers, Sequences, FiniteSets, TLC

(***************************************************************************)
(* Text primitives (Python str methods used by the source)                 *)
(***************************************************************************)
UpperChars == <<"A","B","C","D","E","F","G","H","I","J","K","L","M",
                "N","O","P","Q","R","S","T","U","V","W","X","Y","Z">>

LowerChars == <<"a","b","c","d","e","f","g","h","i","j","k","l","m",
                "n","o","p","q","r","s","t","u","v","w","x","y","z">>

DigitChars == <<"0","1","2","3","4","5","6","7","8","9">>

Whitespace == {" ", "\t"}

IsDigit(c) == \E i \in 1..10 : DigitChars[i] = c

DigitVal(c) == (CHOOSE i \in 1..10 : DigitChars[i] = c) - 1

LowerChar(c) ==
    IF \E i \in 1..26 : UpperChars[i] = c
    THEN LowerChars[CHOOSE i \in 1..26 : UpperChars[i] = c]
    ELSE c

UpperChar(c) ==
    IF \E i \in 1..26 : LowerChars[i] = c
    THEN UpperChars[CHOOSE i \in 1..26 : LowerChars[i] = c]
    ELSE c

Lower(s) == [i \in 1..Len(s) |-> LowerChar(s[i])]

Upper(s) == [i \in 1..Len(s) |-> UpperChar(s[i])]

\* s[:n]
Take(s, n) == IF Len(s) <= n THEN s ELSE SubSeq(s, 1, n)

\* s[n:]
Drop(s, n) == IF Len(s) <= n THEN <<>> ELSE SubSeq(s, n + 1, Len(s))

\* str.strip()
Strip(s) ==
    LET keep == {i \in 1..Len(s) : s[i] \notin Whitespace}
    IN  IF keep = {} THEN <<>>
        ELSE LET lo == CHOOSE i \in keep : \A j \in keep : i <= j
                 hi == CHOOSE i \in keep : \A j \in keep : j <= i
             IN  SubSeq(s, lo, hi)

\* str.replace(c, '') for a single character c
RemoveChar(s, c) == SelectSeq(s, LAMBDA x : x # c)

StartsWith(s, t) == Len(t) <= Len(s) /\ SubSeq(s, 1, Len(t)) = t

\* t in s
Contains(s, t) ==
    \E i \in 1..(Len(s) - Len(t) + 1) : SubSeq(s, i, i + Len(t) - 1) = t

(***************************************************************************)
(* Floats (Column(db.Float), Python float)                                 *)
(***************************************************************************)
NaN == [nan |-> TRUE, v |-> 0]

FloatOf(n) == [nan |-> FALSE, v |-> n]

\* a < b; every comparison with NaN is false
FloatLt(a, b) == ~a.nan /\ ~b.nan /\ a.v < b.v

\* a == b; NaN is not equal to itself
FloatEq(a, b) == ~a.nan /\ ~b.nan /\ a.v = b.v

FloatAdd(a, b) == IF a.nan \/ b.nan THEN NaN ELSE FloatOf(a.v + b.v)

RECURSIVE DigitsValue(_)
DigitsValue(s) ==
    IF s = <<>> THEN 0
    ELSE 10 * DigitsValue(SubSeq(s, 1, Len(s) - 1)) + DigitVal(s[Len(s)])

AllDigits(s) == s # <<>> /\ \A i \in 1..Len(s) : IsDigit(s[i])

\* float(text): surrounding whitespace is ignored; an optional sign followed
\* by decimal digits is that number; an optionally signed "nan" in any case is
\* NaN; anything else raises ValueError (ok = FALSE).  The inputs of the model
\* use no decimal point, exponent, underscore or "inf".
ParseFloat(text) ==
    LET t    == Strip(text)
        sgn  == t # <<>> /\ t[1] \in {"+", "-"}
        mag  == IF sgn THEN Drop(t, 1) ELSE t
    IN  IF AllDigits(mag)
        THEN [ok  |-> TRUE,
              val |-> FloatOf(IF sgn /\ t[1] = "-" THEN 0 - DigitsValue(mag)
                                                    ELSE DigitsValue(mag))]
        ELSE IF Lower(mag) = <<"n","a","n">>
        THEN [ok |-> TRUE, val |-> NaN]
        ELSE [ok |-> FALSE, val |-> NaN]

(***************************************************************************)
(* Field normalizers                                                       *)
(***************************************************************************)
TwoDigits(n) == <<DigitChars[(n \div 10) + 1], DigitChars[(n % 10) + 1]>>

\* "MM/DD/YYYY" with month 01..12 and day 01..28
IsUSDate(s) ==
    /\ Len(s) = 10
    /\ s[3] = "/" /\ s[6] = "/"
    /\ \A i \in {1, 2, 4, 5, 7, 8, 9, 10} : IsDigit(s[i])
    /\ DigitsValue(SubSeq(s, 1, 2)) \in 1..12
    /\ DigitsValue(SubSeq(s, 4, 5)) \in 1..28

\* "YYYY-MM-DD" with month 01..12 and day 01..28
IsISODate(s) ==
    /\ Len(s) = 10
    /\ s[5] = "-" /\ s[8] = "-"
    /\ \A i \in {1, 2, 3, 4, 6, 7, 9, 10} : IsDigit(s[i])
    /\ DigitsValue(SubSeq(s, 6, 7)) \in 1..12
    /\ DigitsValue(SubSeq(s, 9, 10)) \in 1..28

\* "HH:MM" on the 24 hour clock
IsClock(s) ==
    /\ Len(s) = 5
    /\ s[3] = ":"
    /\ \A i \in {1, 2, 4, 5} : IsDigit(s[i])
    /\ DigitsValue(SubSeq(s, 1, 2)) \in 0..23
    /\ DigitsValue(SubSeq(s, 4, 5)) \in 0..59

\* What pd.to_datetime(val) makes of the texts the model feeds it: a date
\* (US or ISO layout), a date followed by a blank and a 24 hour clock time, or
\* a clock time alone; ok = FALSE is the parser raising.  date is the date in
\* MM/DD/YYYY layout (empty for a bare clock time, where pandas takes today).
ParseDateTime(val) ==
    LET d    == Take(val, 10)
        rest == Drop(val, 10)
        us   == IF IsUSDate(d) THEN d
                ELSE SubSeq(d, 6, 7) \o <<"/">> \o SubSeq(d, 9, 10) \o <<"/">>
                     \o SubSeq(d, 1, 4)
    IN  IF IsClock(val)
        THEN [ok |-> TRUE, date |-> <<>>,
              hour   |-> DigitsValue(SubSeq(val, 1, 2)),
              minute |-> DigitsValue(SubSeq(val, 4, 5))]
        ELSE IF (IsUSDate(d) \/ IsISODate(d)) /\ rest = <<>>
        THEN [ok |-> TRUE, date |-> us, hour |-> 0, minute |-> 0]
        ELSE IF (IsUSDate(d) \/ IsISODate(d)) /\ Len(rest) = 6
                /\ rest[1] = " " /\ IsClock(Drop(rest, 1))
        THEN [ok |-> TRUE, date |-> us,
              hour   |-> DigitsValue(SubSeq(rest, 2, 3)),
              minute |-> DigitsValue(SubSeq(rest, 5, 6))]
        ELSE [ok |-> FALSE, date |-> <<>>, hour |-> 0, minute |-> 0]

\* strftime('%I:%M %p').lstrip('0')
Format12hr(hour, minute) ==
    LET h12  == IF hour % 12 = 0 THEN 12 ELSE hour % 12
        hh   == IF h12 < 10 THEN <<DigitChars[h12 + 1]>> ELSE TwoDigits(h12)
        ampm == IF hour < 12 THEN <<"A","M">> ELSE <<"P","M">>
    IN  hh \o <<":">> \o TwoDigits(minute) \o <<" ">> \o ampm

_format_date_val(val) ==
    IF val = <<>> THEN <<>>
    ELSE IF IsUSDate(val) THEN val
    ELSE LET parsed == ParseDateTime(val)
         IN  IF parsed.ok /\ parsed.date # <<>> THEN parsed.date
             ELSE Take(val, 10)

_format_time_val(val) ==
    IF val = <<>> THEN <<>>
    ELSE LET parsed == ParseDateTime(val)
         IN  IF ~parsed.ok THEN <<>>
             ELSE IF parsed.hour = 0 /\ parsed.minute = 0 THEN <<>>
             ELSE Format12hr(parsed.hour, parsed.minute)

_convert_to_12hr(time_str) ==
    LET t == Strip(time_str)
    IN  IF t = <<>> THEN <<>>
        ELSE LET parsed == ParseDateTime(t)
             IN  IF parsed.ok THEN Format12hr(parsed.hour, parsed.minute)
                 ELSE t

\* (XXX) XXX-XXXX of ten digits
FormatTenDigits(digits) ==
    <<"(">> \o SubSeq(digits, 1, 3) \o <<")", " ">> \o SubSeq(digits, 4, 6)
    \o <<"-">> \o SubSeq(digits, 7, 10)

DefaultAreaCode == <<"7","0","4">>

_format_phone(phone_str) ==
    LET digits == SelectSeq(phone_str, IsDigit)
    IN  IF phone_str = <<>> THEN <<>>
        ELSE IF digits = <<>> THEN <<>>
        ELSE IF Len(digits) = 7 THEN FormatTenDigits(DefaultAreaCode \o digits)
        ELSE IF Len(digits) = 10 THEN FormatTenDigits(digits)
        ELSE IF Len(digits) = 11 /\ digits[1] = "1"
             THEN FormatTenDigits(Drop(digits, 1))
        ELSE Strip(phone_str)

(***************************************************************************)
(* Category resolver                                                       *)
(***************************************************************************)
VALID_ITEM_TYPES ==
    << <<"S","h","i","r","t">>, <<"J","e","a","n","s">>,
       <<"D","r","e","s","s">>, <<"J","a","c","k","e","t">>,
       <<"C","o","a","t">>, <<"P","a","n","t","s">>,
       <<"S","k","i","r","t">>, <<"S","h","o","r","t","s">>,
       <<"O","t","h","e","r">> >>

Shirt == VALID_ITEM_TYPES[1]
Jeans == VALID_ITEM_TYPES[2]
Dress == VALID_ITEM_TYPES[3]
Jacket == VALID_ITEM_TYPES[4]
Coat == VALID_ITEM_TYPES[5]
Pants == VALID_ITEM_TYPES[6]
Skirt == VALID_ITEM_TYPES[7]
Shorts == VALID_ITEM_TYPES[8]
Other == VALID_ITEM_TYPES[9]

\* the alias table, as <<key, canonical type>> pairs
ITEM_TYPE_ALIASES ==
    { << <<"s","h","i","r","t","s">>, Shirt >>,
      << <<"t","s","h","i","r","t">>, Shirt >>,
      << <<"t","-","s","h","i","r","t">>, Shirt >>,
      << <<"t","e","e">>, Shirt >>,
      << <<"b","l","o","u","s","e">>, Shirt >>,
      << <<"t","o","p">>, Shirt >>,
      << <<"j","e","a","n">>, Jeans >>,
      << <<"d","e","n","i","m">>, Jeans >>,
      << <<"d","r","e","s","s","e","s">>, Dress >>,
      << <<"g","o","w","n">>, Dress >>,
      << <<"j","a","c","k","e","t","s">>, Jacket >>,
      << <<"b","l","a","z","e","r">>, Jacket >>,
      << <<"c","o","a","t","s">>, Coat >>,
      << <<"o","v","e","r","c","o","a","t">>, Coat >>,
      << <<"p","a","n","t">>, Pants >>,
      << <<"t","r","o","u","s","e","r","s">>, Pants >>,
      << <<"s","l","a","c","k","s">>, Pants >>,
      << <<"s","k","i","r","t","s">>, Skirt >>,
      << <<"s","h","o","r","t">>, Shorts >>,
      << <<"m","i","s","c">>, Other >>,
      << <<"m","i","s","c","e","l","l","a","n","e","o","u","s">>, Other >>,
      << <<"e","t","c">>, Other >> }

NoType == <<>>

\* the first index of VALID_ITEM_TYPES satisfying P, 0 when there is none
FirstValidType(P(_)) ==
    IF \E i \in 1..Len(VALID_ITEM_TYPES) : P(VALID_ITEM_TYPES[i])
    THEN CHOOSE i \in 1..Len(VALID_ITEM_TYPES) :
            /\ P(VALID_ITEM_TYPES[i])
            /\ \A j \in 1..(i - 1) : ~P(VALID_ITEM_TYPES[j])
    ELSE 0

\* the last index of VALID_ITEM_TYPES satisfying P, 0 when there is none
LastValidType(P(_)) ==
    IF \E i \in 1..Len(VALID_ITEM_TYPES) : P(VALID_ITEM_TYPES[i])
    THEN CHOOSE i \in 1..Len(VALID_ITEM_TYPES) :
            /\ P(VALID_ITEM_TYPES[i])
            /\ \A j \in (i + 1)..Len(VALID_ITEM_TYPES) : ~P(VALID_ITEM_TYPES[j])
    ELSE 0

\* a faulty _normalize_item_type: the last canonical name found in the text
\* wins, not the first
_normalize_item_type_last_match(item_type_str) ==
    LET s           == Strip(item_type_str)
        lower_input == Lower(s)
        exact       == FirstValidType(LAMBDA vt : lower_input = Lower(vt))
        inside      == LastValidType(LAMBDA vt :
                           \/ StartsWith(lower_input, Lower(vt))
                           \/ Contains(lower_input, Lower(vt)))
    IN  IF s = <<>> THEN [type |-> NoType, valid |-> FALSE]
        ELSE IF exact # 0 THEN [type |-> VALID_ITEM_TYPES[exact], valid |-> TRUE]
        ELSE IF \E a \in ITEM_TYPE_ALIASES : a[1] = lower_input
        THEN [type  |-> (CHOOSE a \in ITEM_TYPE_ALIASES : a[1] = lower_input)[2],
              valid |-> TRUE]
        ELSE IF inside # 0 THEN [type |-> VALID_ITEM_TYPES[inside], valid |-> TRUE]
        ELSE [type |-> NoType, valid |-> FALSE]

\* a faulty _normalize_item_type: an exact match returns the text as typed
_normalize_item_type_as_typed(item_type_str) ==
    LET s           == Strip(item_type_str)
        lower_input == Lower(s)
        exact       == FirstValidType(LAMBDA vt : lower_input = Lower(vt))
        inside      == FirstValidType(LAMBDA vt :
                           \/ StartsWith(lower_input, Lower(vt))
                           \/ Contains(lower_input, Lower(vt)))
    IN  IF s = <<>> THEN [type |-> NoType, valid |-> FALSE]
        ELSE IF exact # 0 THEN [type |-> s, valid |-> TRUE]
        ELSE IF \E a \in ITEM_TYPE_ALIASES : a[1] = lower_input
        THEN [type  |-> (CHOOSE a \in ITEM_TYPE_ALIASES : a[1] = lower_input)[2],
              valid |-> TRUE]
        ELSE IF inside # 0 THEN [type |-> VALID_ITEM_TYPES[inside], valid |-> TRUE]
        ELSE [type |-> NoType, valid |-> FALSE]

\* returns [type, valid]; type = NoType stands for None
_normalize_item_type(item_type_str) ==
    LET s           == Strip(item_type_str)
        lower_input == Lower(s)
        exact       == FirstValidType(LAMBDA vt : lower_input = Lower(vt))
        inside      == FirstValidType(LAMBDA vt :
                           \/ StartsWith(lower_input, Lower(vt))
                           \/ Contains(lower_input, Lower(vt)))
    IN  IF s = <<>> THEN [type |-> NoType, valid |-> FALSE]
        ELSE IF exact # 0 THEN [type |-> VALID_ITEM_TYPES[exact], valid |-> TRUE]
        ELSE IF \E a \in ITEM_TYPE_ALIASES : a[1] = lower_input
        THEN [type  |-> (CHOOSE a \in ITEM_TYPE_ALIASES : a[1] = lower_input)[2],
              valid |-> TRUE]
        ELSE IF inside # 0 THEN [type |-> VALID_ITEM_TYPES[inside], valid |-> TRUE]
        ELSE [type |-> NoType, valid |-> FALSE]

(***************************************************************************)
(* Inputs                                                                  *)
(***************************************************************************)
MaxRows == 3

MaxOps == 2

Slip101 == <<"1","0","1">>
Slip102 == <<"1","0","2">>

RawRow(slip, fi, ln, ph, it, wd, pr, dr, dd, dt) ==
    [slip_number |-> slip, first_initial |-> fi, last_name |-> ln, phone |-> ph,
     item_type |-> it, work_description |-> wd, price |-> pr,
     date_received |-> dr, due_date |-> dd, due_time |-> dt]

\* accepted: ticket 101, Shirt 10, no phone
RowShirt ==
    RawRow(<<" ">> \o Slip101, <<"j">>, <<"D","o","e">>, <<>>,
           <<"s","h","i","r","t">>, <<>>, <<"1","0">>, <<>>, <<>>, <<>>)

\* accepted: ticket 101, Jeans 20, phone and dates supplied
RowJeans ==
    RawRow(Slip101, <<>>, <<>>, <<"5","5","5","-","1","2","1","2">>,
           <<"J","e","a","n","s">>, <<"h","e","m">>, <<"$","2","0">>,
           <<"2","0","2","5","-","0","1","-","0","2">>,
           <<"0","1","/","0","3","/","2","0","2","5"," ","1","4",":","3","0">>,
           <<>>)

\* accepted: ticket 101, the item of RowShirt again, another phone
RowShirtAgain ==
    RawRow(Slip101, <<"k">>, <<"R","o","e">>,
           <<"7","0","4","9","9","9","8","8","8","8">>,
           <<"S","H","I","R","T">>, <<" ">>, <<"1","0">>,
           <<"0","1","/","0","5","/","2","0","2","5">>, <<"s","o","o","n">>,
           <<"0","9",":","0","5">>)

\* accepted: ticket 102, Shirt 10 by alias, nothing else supplied
RowTee ==
    RawRow(Slip102, <<>>, <<>>, <<>>, <<"t","-","s","h","i","r","t">>, <<>>,
           <<"1","0">>, <<>>, <<>>, <<>>)

\* accepted by the checks, price not a number: ticket 102, Coat
RowNaN ==
    RawRow(Slip102, <<>>, <<>>, <<>>, <<"C","o","a","t">>, <<>>,
           <<"N","A","N">>, <<>>, <<>>, <<>>)

\* fails every check
RowNoSlip ==
    RawRow(<<" ">>, <<>>, <<>>, <<>>, <<"x","y","z">>, <<>>, <<"-","5">>,
           <<>>, <<>>, <<>>)

\* fails the category and the price checks
RowBadType ==
    RawRow(Slip102, <<>>, <<>>, <<>>, <<"x","y","z">>, <<>>, <<"a","b","c">>,
           <<>>, <<>>, <<>>)

\* fails the price format check only
RowBadPrice ==
    RawRow(Slip101, <<>>, <<>>, <<>>, <<"D","r","e","s","s">>, <<>>,
           <<"a","b","c">>, <<>>, <<>>, <<>>)

\* price "-5", otherwise valid
RowNegative ==
    RawRow(Slip102, <<"m">>, <<"L","e","e">>, <<"5","5","5","1","2","1","2">>,
           <<"J","e","a","n","s">>, <<>>, <<"-","5">>, <<>>, <<>>, <<>>)

\* accepted: ticket 101, Dress 5, no contact data (only in the files of
\* overlapping uploads)
RowDress ==
    RawRow(Slip101, <<>>, <<>>, <<>>, <<"d","r","e","s","s">>, <<>>, <<"5">>,
           <<>>, <<>>, <<>>)

Rows == {RowShirt, RowJeans, RowShirtAgain, RowTee, RowNaN,
         RowNoSlip, RowBadType, RowBadPrice, RowNegative}

\* every row of the model's files
AllRows == Rows \cup {RowDress}

\* a submitted form: the slip fields and the parallel lists of the items
RawForm(slip, fi, ln, ph, dr, dd, dt, its, wds, prs) ==
    [slip_number |-> slip, first_initial |-> fi, last_name |-> ln, phone |-> ph,
     date_received |-> dr, due_date |-> dd, due_time |-> dt,
     item_type |-> its, work_description |-> wds, price |-> prs]

\* ticket 101 with one item, Shirt 10
FormShirt ==
    RawForm(Slip101, <<"q">>, <<"F","o","x">>,
            <<"7","0","4","-","9","9","9","-","8","8","8","8">>,
            <<"2","0","2","5","-","0","1","-","0","2">>,
            <<"2","0","2","5","-","0","1","-","0","9">>, <<"1","4",":","3","0">>,
            << <<"S","h","i","r","t">> >>, << <<>> >>, << <<"1","0">> >>)

\* ticket 102; two item types but one description: one item, Skirt 3
FormShort ==
    RawForm(Slip102, <<>>, <<>>, <<>>, <<>>, <<>>, <<>>,
            << <<"S","k","i","r","t">>, <<"D","r","e","s","s">> >>,
            << <<"l","i","n","e">> >>, << <<"3">>, <<"4">> >>)

\* ticket 102; a price that float() reads as NaN
FormNaN ==
    RawForm(Slip102, <<>>, <<>>, <<>>, <<>>, <<>>, <<>>,
            << <<"C","o","a","t">> >>, << <<>> >>, << <<"n","a","n">> >>)

\* the second item has no valid type
FormBadType ==
    RawForm(Slip101, <<>>, <<>>, <<>>, <<>>, <<>>, <<>>,
            << <<"P","a","n","t","s">>, <<"x","y","z">> >>,
            << <<>>, <<>> >>, << <<"1">>, <<"2">> >>)

\* a negative price
FormNegative ==
    RawForm(Slip102, <<>>, <<>>, <<>>, <<>>, <<>>, <<>>,
            << <<"D","r","e","s","s">> >>, << <<>> >>, << <<"-","1">> >>)

\* no item at all
FormEmpty ==
    RawForm(Slip101, <<>>, <<>>, <<>>, <<>>, <<>>, <<>>, <<>>, <<>>, <<>>)

Forms == {FormShirt, FormShort, FormNaN, FormBadType, FormNegative, FormEmpty}

(***************************************************************************)
(* The store: the pink_slip and pink_slip_item tables.  A row's primary    *)
(* key is its position in the table (autoincrement, nothing is deleted).   *)
(***************************************************************************)
EmptyDb == [tickets |-> <<>>, items |-> <<>>]

TicketColumns == {"first_initial", "last_name", "phone", "date_received",
                  "due_date", "due_time", "total_amount"}

\* PinkSlip.query.filter_by(slip_number=...).first(): the id of the row, 0 for None
FindTicket(store, slip_number) ==
    IF \E i \in 1..Len(store.tickets) : store.tickets[i].slip_number = slip_number
    THEN CHOOSE i \in 1..Len(store.tickets) :
            /\ store.tickets[i].slip_number = slip_number
            /\ \A j \in 1..(i - 1) : store.tickets[j].slip_number # slip_number
    ELSE 0

\* the lazy load of ticket.items: the item rows of the ticket, in key order
ItemsOf(store, ticket_id) ==
    LET rows == SelectSeq(store.items, LAMBDA r : r.slip_id = ticket_id)
    IN  [i \in 1..Len(rows) |->
            [new |-> FALSE, item_type |-> rows[i].item_type,
             work_description |-> rows[i].work_description,
             price |-> rows[i].price]]

(***************************************************************************)
(* upload: one row of the file                                             *)
(***************************************************************************)
\* the raw values read from a row (lines 232-241)
RowValues(row) ==
    [slip_number       |-> Strip(row.slip_number),
     first_initial     |-> Take(Upper(Strip(row.first_initial)), 1),
     last_name         |-> Strip(row.last_name),
     phone             |-> _format_phone(row.phone),
     item_type_raw     |-> Strip(row.item_type),
     work_description  |-> Strip(row.work_description),
     price_raw         |-> RemoveChar(RemoveChar(Strip(row.price), "$"), ","),
     date_received_raw |-> row.date_received,
     due_date_raw      |-> row.due_date,
     due_time_raw      |-> row.due_time]

MissingSlipNumber == <<"Missing slip_number">>
InvalidItemType(raw) == <<"Invalid item_type", raw>>
InvalidPriceFormat == <<"Invalid price format">>
NegativePrice == <<"Negative price not allowed">>
NoError == <<>>

\* a faulty ValidationError: the sign of the price is not checked
ValidationErrorAnySign(row) ==
    LET v == RowValues(row)
    IN  IF v.slip_number = <<>> THEN MissingSlipNumber
        ELSE IF ~_normalize_item_type(v.item_type_raw).valid
             THEN InvalidItemType(v.item_type_raw)
        ELSE IF ~ParseFloat(v.price_raw).ok THEN InvalidPriceFormat
        ELSE NoError

\* a faulty ValidationError: the price is checked before the category
ValidationErrorPriceFirst(row) ==
    LET v == RowValues(row)
    IN  IF v.slip_number = <<>> THEN MissingSlipNumber
        ELSE IF ~ParseFloat(v.price_raw).ok THEN InvalidPriceFormat
        ELSE IF FloatLt(ParseFloat(v.price_raw).val, FloatOf(0)) THEN NegativePrice
        ELSE IF ~_normalize_item_type(v.item_type_raw).valid
             THEN InvalidItemType(v.item_type_raw)
        ELSE NoError

\* the validation block (lines 243-285): the error of the first failing check
ValidationError(row) ==
    LET v == RowValues(row)
    IN  IF v.slip_number = <<>> THEN MissingSlipNumber
        ELSE IF ~_normalize_item_type(v.item_type_raw).valid
             THEN InvalidItemType(v.item_type_raw)
        ELSE IF ~ParseFloat(v.price_raw).ok THEN InvalidPriceFormat
        ELSE IF FloatLt(ParseFloat(v.price_raw).val, FloatOf(0)) THEN NegativePrice
        ELSE NoError

\* ValidationError of every row a file can hold, computed once
Checked == [r \in AllRows |-> ValidationError(r)]

RowError(row) == Checked[row]

\* the entry appended to error_rows for a rejected row
ErrorRow(row_number, row) ==
    [row         |-> row_number,
     slip_number |-> IF RowError(row) = MissingSlipNumber THEN <<>>
                     ELSE RowValues(row).slip_number,
     error       |-> RowError(row)]

\* the values of an accepted row after normalization (lines 287-294)
Accepted(row) ==
    LET v == RowValues(row)
    IN  [slip_number      |-> v.slip_number,
         first_initial    |-> v.first_initial,
         last_name        |-> v.last_name,
         phone            |-> v.phone,
         date_received    |-> _format_date_val(v.date_received_raw),
         due_date         |-> _format_date_val(v.due_date_raw),
         due_time         |-> IF Strip(v.due_time_raw) # <<>>
                              THEN _convert_to_12hr(v.due_time_raw)
                              ELSE _format_time_val(v.due_date_raw),
         item_type        |-> _normalize_item_type(v.item_type_raw).type,
         work_description |-> v.work_description,
         price            |-> ParseFloat(v.price_raw).val]

\* Accepted of every row a file can hold, computed once
Normalized == [r \in AllRows |-> Accepted(r)]

AcceptedRow(row) == Normalized[row]

Unknown == <<"U","n","k","n","o","w","n">>

\* PinkSlip(...) of lines 301-310 and 488-497: a new, unsaved ticket object
NewTicket(a) ==
    [id            |-> 0,
     slip_number   |-> a.slip_number,
     first_initial |-> IF a.first_initial # <<>> THEN a.first_initial ELSE <<"?">>,
     last_name     |-> IF a.last_name # <<>> THEN a.last_name ELSE Unknown,
     phone         |-> a.phone,
     date_received |-> a.date_received,
     due_date      |-> a.due_date,
     due_time      |-> a.due_time,
     total_amount  |-> FloatOf(0),
     items         |-> <<>>,
     loaded        |-> TRUE,
     changed       |-> {}]

\* the ticket object the query returns for row ticket_id: its items collection
\* is not loaded until it is first read
LoadTicket(store, ticket_id) ==
    LET r == store.tickets[ticket_id]
    IN  [id            |-> ticket_id,
         slip_number   |-> r.slip_number,
         first_initial |-> r.first_initial,
         last_name     |-> r.last_name,
         phone         |-> r.phone,
         date_received |-> r.date_received,
         due_date      |-> r.due_date,
         due_time      |-> r.due_time,
         total_amount  |-> r.total_amount,
         items         |-> <<>>,
         loaded        |-> FALSE,
         changed       |-> {}]

\* a faulty FillColumn: a sentinel default counts as empty and is filled
FillColumnOverDefault(t, column, value) ==
    IF value # <<>> /\ t[column] \in {<<>>, <<"?">>, Unknown}
    THEN [t EXCEPT ![column] = value, !.changed = @ \cup {column}]
    ELSE t

\* a faulty FillColumn: a supplied value replaces the stored one
FillColumnOverwrite(t, column, value) ==
    IF value # <<>> /\ t[column] # value
    THEN [t EXCEPT ![column] = value, !.changed = @ \cup {column}]
    ELSE t

\* one "if value and not ticket.column: ticket.column = value"
FillColumn(t, column, value) ==
    IF value # <<>> /\ t[column] = <<>>
    THEN [t EXCEPT ![column] = value, !.changed = @ \cup {column}]
    ELSE t

\* lines 314-326
MergeTicket(t, a) ==
    LET t1 == FillColumn(t, "first_initial", a.first_initial)
        t2 == FillColumn(t1, "last_name", a.last_name)
        t3 == FillColumn(t2, "phone", a.phone)
        t4 == FillColumn(t3, "date_received", a.date_received)
        t5 == FillColumn(t4, "due_date", a.due_date)
    IN  FillColumn(t5, "due_time", a.due_time)

\* the position of slip_number in tickets_cache, 0 for a miss
CacheIndex(cache, slip_number) ==
    IF \E i \in 1..Len(cache) : cache[i].slip_number = slip_number
    THEN CHOOSE i \in 1..Len(cache) : cache[i].slip_number = slip_number
    ELSE 0

\* a faulty IsDuplicate: the items added earlier in the batch are not compared
IsDuplicateStoredOnly(t, a) ==
    \E i \in 1..Len(t.items) :
        /\ ~t.items[i].new
        /\ t.items[i].item_type = a.item_type
        /\ t.items[i].work_description = a.work_description
        /\ FloatEq(t.items[i].price, a.price)

\* a faulty IsDuplicate: only the last item of the ticket is compared
IsDuplicateLastOnly(t, a) ==
    /\ t.items # <<>>
    /\ t.items[Len(t.items)].item_type = a.item_type
    /\ t.items[Len(t.items)].work_description = a.work_description
    /\ FloatEq(t.items[Len(t.items)].price, a.price)

\* lines 330-336
IsDuplicate(t, a) ==
    \E i \in 1..Len(t.items) :
        /\ t.items[i].item_type = a.item_type
        /\ t.items[i].work_description = a.work_description
        /\ FloatEq(t.items[i].price, a.price)

RECURSIVE SumPrices(_)
SumPrices(items) ==
    IF items = <<>> THEN FloatOf(0)
    ELSE FloatAdd(SumPrices(SubSeq(items, 1, Len(items) - 1)),
                  items[Len(items)].price)

(***************************************************************************)
(* upload: the request's local state.  idx is the dataframe index of the   *)
(* row being processed, cache is tickets_cache in insertion order, cur the *)
(* position in it of the current row's ticket, dirty whether the session   *)
(* holds changes it has not flushed, queries the lookups made in the store   *)
(* so far (the row that made each, and the slip number).                   *)
(***************************************************************************)
NoResponse == [status |-> "none"]

IdleSession ==
    [pc |-> "idle", df |-> <<>>, idx |-> 0,
     tickets_created |-> 0, items_imported |-> 0,
     duplicates_skipped |-> 0, rows_skipped |-> 0,
     error_rows |-> <<>>, cache |-> <<>>, cur |-> 0,
     dirty |-> FALSE, queries |-> <<>>, response |-> NoResponse]

\* lines 208-225: the file is read and the counters start at zero
BeginUpload(batch) ==
    [IdleSession EXCEPT !.pc = IF batch = <<>> THEN "totals" ELSE "row",
                        !.df = batch]

CurrentRow(s) == s.df[s.idx + 1]

\* the loop moves to the next row, or leaves after the last one
NextRow(s) ==
    [s EXCEPT !.idx = @ + 1,
              !.cur = 0,
              !.pc  = IF s.idx + 1 = Len(s.df) THEN "totals" ELSE "row"]

\* a faulty RejectRow: the header row is not counted in the row number
RejectRowNoHeader(s) ==
    NextRow([s EXCEPT !.rows_skipped = @ + 1,
                      !.error_rows = Append(@, ErrorRow(s.idx + 1, CurrentRow(s)))])

\* a faulty RejectRow: the first rejected row ends the row loop
RejectRowStops(s) ==
    [s EXCEPT !.rows_skipped = @ + 1,
              !.error_rows = Append(@, ErrorRow(s.idx + 2, CurrentRow(s))),
              !.idx = @ + 1,
              !.cur = 0,
              !.pc = "totals"]

\* a failed check: count, record, continue
RejectRow(s) ==
    NextRow([s EXCEPT !.rows_skipped = @ + 1,
                      !.error_rows = Append(@, ErrorRow(s.idx + 2, CurrentRow(s)))])

\* a faulty ObtainTicket: the store is queried before the cache is consulted
ObtainTicketLookupFirst(s, store) ==
    LET a   == AcceptedRow(CurrentRow(s))
        k   == CacheIndex(s.cache, a.slip_number)
        id  == FindTicket(store, a.slip_number)
        got == IF id = 0 THEN NewTicket(a) ELSE MergeTicket(LoadTicket(store, id), a)
        q   == [row |-> s.idx + 2, slip_number |-> a.slip_number]
    IN  IF k # 0 THEN [s EXCEPT !.cur = k, !.queries = Append(@, q), !.pc = "attach"]
        ELSE [s EXCEPT !.cache = Append(@, got),
                       !.cur = Len(s.cache) + 1,
                       !.tickets_created = IF id = 0 THEN @ + 1 ELSE @,
                       !.dirty = @ \/ id = 0 \/ got.changed # {},
                       !.queries = Append(@, q),
                       !.pc = "attach"]

\* a faulty ObtainTicket: tickets_created counts the tickets found in the store
ObtainTicketCountsFound(s, store) ==
    LET a   == AcceptedRow(CurrentRow(s))
        k   == CacheIndex(s.cache, a.slip_number)
        id  == FindTicket(store, a.slip_number)
        got == IF id = 0 THEN NewTicket(a) ELSE MergeTicket(LoadTicket(store, id), a)
    IN  IF k # 0 THEN [s EXCEPT !.cur = k, !.pc = "attach"]
        ELSE [s EXCEPT !.cache = Append(@, got),
                       !.cur = Len(s.cache) + 1,
                       !.tickets_created = @ + 1,
                       !.dirty = @ \/ id = 0 \/ got.changed # {},
                       !.queries = Append(@, [row |-> s.idx + 2,
                                              slip_number |-> a.slip_number]),
                       !.pc = "attach"]

\* lines 296-327: get or create the ticket of an accepted row
ObtainTicket(s, store) ==
    LET a   == AcceptedRow(CurrentRow(s))
        k   == CacheIndex(s.cache, a.slip_number)
        id  == FindTicket(store, a.slip_number)
        got == MergeTicket(LoadTicket(store, id), a)
    IN  IF k # 0 THEN [s EXCEPT !.cur = k, !.pc = "attach"]
        ELSE IF id = 0
        THEN [s EXCEPT !.cache = Append(@, NewTicket(a)),
                       !.cur = Len(s.cache) + 1,
                       !.tickets_created = @ + 1,
                       !.dirty = TRUE,
                       !.queries = Append(@, [row |-> s.idx + 2,
                                              slip_number |-> a.slip_number]),
                       !.pc = "attach"]
        ELSE [s EXCEPT !.cache = Append(@, got),
                       !.cur = Len(s.cache) + 1,
                       !.dirty = @ \/ got.changed # {},
                       !.queries = Append(@, [row |-> s.idx + 2,
                                              slip_number |-> a.slip_number]),
                       !.pc = "attach"]

\* a faulty StepRow: the ticket is obtained before the price is validated
StepRowTicketFirst(s, store) ==
    IF RowError(CurrentRow(s)) = NoError THEN ObtainTicket(s, store)
    ELSE IF RowError(CurrentRow(s)) \in {InvalidPriceFormat, NegativePrice}
    THEN RejectRow(ObtainTicket(s, store))
    ELSE RejectRow(s)

\* lines 228-327 for the current row
StepRow(s, store) ==
    IF RowError(CurrentRow(s)) # NoError THEN RejectRow(s)
    ELSE ObtainTicket(s, store)

\* a faulty StepAttach: the duplicate check looks at the items of every ticket
\* of the batch, not only at those of the row's ticket
StepAttachBatchDuplicates(s, store) ==
    LET a  == AcceptedRow(CurrentRow(s))
        t0 == s.cache[s.cur]
        t  == IF t0.loaded THEN t0
              ELSE [t0 EXCEPT !.items = ItemsOf(store, t0.id), !.loaded = TRUE]
        it == [new |-> TRUE, item_type |-> a.item_type,
               work_description |-> a.work_description, price |-> a.price]
    IN  IF IsDuplicate(t, a) \/ \E k \in 1..Len(s.cache) : IsDuplicate(s.cache[k], a)
        THEN NextRow([s EXCEPT !.cache[s.cur] = t,
                               !.duplicates_skipped = @ + 1])
        ELSE NextRow([s EXCEPT !.cache[s.cur] = [t EXCEPT !.items = Append(@, it)],
                               !.items_imported = @ + 1,
                               !.dirty = TRUE])

\* a faulty StepAttach: the total is kept up to date as each item is added
StepAttachRunningTotal(s, store) ==
    LET a  == AcceptedRow(CurrentRow(s))
        t0 == s.cache[s.cur]
        t  == IF t0.loaded THEN t0
              ELSE [t0 EXCEPT !.items = ItemsOf(store, t0.id), !.loaded = TRUE]
        it == [new |-> TRUE, item_type |-> a.item_type,
               work_description |-> a.work_description, price |-> a.price]
    IN  IF IsDuplicate(t, a)
        THEN NextRow([s EXCEPT !.cache[s.cur] = t,
                               !.duplicates_skipped = @ + 1])
        ELSE NextRow([s EXCEPT !.cache[s.cur] =
                                  [t EXCEPT !.items = Append(@, it),
                                            !.total_amount = FloatAdd(@, a.price),
                                            !.changed = @ \cup {"total_amount"}],
                               !.items_imported = @ + 1,
                               !.dirty = TRUE])

\* lines 329-350: the duplicate check (the first read of ticket.items loads
\* them) and the creation of the item
StepAttach(s, store) ==
    LET a  == AcceptedRow(CurrentRow(s))
        t0 == s.cache[s.cur]
        t  == IF t0.loaded THEN t0
              ELSE [t0 EXCEPT !.items = ItemsOf(store, t0.id), !.loaded = TRUE]
        it == [new |-> TRUE, item_type |-> a.item_type,
               work_description |-> a.work_description, price |-> a.price]
    IN  IF IsDuplicate(t, a)
        THEN NextRow([s EXCEPT !.cache[s.cur] = t,
                               !.duplicates_skipped = @ + 1])
        ELSE NextRow([s EXCEPT !.cache[s.cur] = [t EXCEPT !.items = Append(@, it)],
                               !.items_imported = @ + 1,
                               !.dirty = TRUE])

\* a faulty RecomputeTotal: only the items added by this request are summed
RecomputeTotalNewOnly(t) ==
    LET total == SumPrices(SelectSeq(t.items, LAMBDA it : it.new))
    IN  [t EXCEPT !.total_amount = total,
                  !.changed = IF total = t.total_amount THEN @
                              ELSE @ \cup {"total_amount"}]

\* lines 354-360 for one ticket
RecomputeTotal(t) ==
    LET total == SumPrices(t.items)
    IN  [t EXCEPT !.total_amount = total,
                  !.changed = IF total = t.total_amount THEN @
                              ELSE @ \cup {"total_amount"}]

\* lines 352-361
StepTotals(s) ==
    LET cache == [i \in 1..Len(s.cache) |-> RecomputeTotal(s.cache[i])]
    IN  [s EXCEPT !.cache = cache,
                  !.dirty = @ \/ \E i \in 1..Len(cache) : cache[i].changed # {},
                  !.pc = "commit"]

(***************************************************************************)
(* The session's flush and commit against SQLite                           *)
(***************************************************************************)
\* a faulty UniqueOk: slip_number is not unique
UniqueOkUnchecked(store, t) == TRUE

\* slip_number is unique (line 22)
UniqueOk(store, t) == t.id # 0 \/ FindTicket(store, t.slip_number) = 0

\* price and total_amount are NOT NULL (lines 29, 48); SQLite binds NaN as NULL
NotNullOk(t) ==
    /\ ~t.total_amount.nan
    /\ \A i \in 1..Len(t.items) : t.items[i].new => ~t.items[i].price.nan

\* whether the INSERTs and UPDATEs of the session's changes satisfy the
\* constraints of the tables; if not the flush raises IntegrityError
FlushOk(s, store) ==
    \A i \in 1..Len(s.cache) :
        UniqueOk(store, s.cache[i]) /\ NotNullOk(s.cache[i])

TicketRow(t) ==
    [slip_number   |-> t.slip_number,
     first_initial |-> t.first_initial,
     last_name     |-> t.last_name,
     phone         |-> t.phone,
     date_received |-> t.date_received,
     due_date      |-> t.due_date,
     due_time      |-> t.due_time,
     total_amount  |-> t.total_amount]

\* a faulty WriteTicket: every item of the collection is inserted, the loaded
\* ones again
WriteTicketAllItems(store, t) ==
    LET id   == IF t.id = 0 THEN Len(store.tickets) + 1 ELSE t.id
        old  == store.tickets[t.id]
    IN  [tickets |->
            IF t.id = 0 THEN Append(store.tickets, TicketRow(t))
            ELSE [store.tickets EXCEPT ![t.id] =
                    [c \in DOMAIN old |-> IF c \in t.changed THEN t[c] ELSE old[c]]],
         items |->
            store.items \o
            [i \in 1..Len(t.items) |->
                [slip_id |-> id, item_type |-> t.items[i].item_type,
                 work_description |-> t.items[i].work_description,
                 price |-> t.items[i].price]]]

\* the rows written for one ticket object: INSERT of a new ticket or UPDATE of
\* the changed columns of a stored one, and INSERT of its new items
WriteTicket(store, t) ==
    LET id   == IF t.id = 0 THEN Len(store.tickets) + 1 ELSE t.id
        old  == store.tickets[t.id]
        fresh == SelectSeq(t.items, LAMBDA it : it.new)
    IN  [tickets |->
            IF t.id = 0 THEN Append(store.tickets, TicketRow(t))
            ELSE [store.tickets EXCEPT ![t.id] =
                    [c \in DOMAIN old |-> IF c \in t.changed THEN t[c] ELSE old[c]]],
         items |->
            store.items \o
            [i \in 1..Len(fresh) |->
                [slip_id |-> id, item_type |-> fresh[i].item_type,
                 work_description |-> fresh[i].work_description,
                 price |-> fresh[i].price]]]

RECURSIVE WriteAll(_, _)
WriteAll(store, cache) ==
    IF cache = <<>> THEN store
    ELSE WriteAll(WriteTicket(store, Head(cache)), Tail(cache))

\* db.session.commit() that succeeds (line 365)
CommitSession(s, store) == WriteAll(store, s.cache)

\* a faulty rollback: the rows that met the constraints stay in the store
RollbackKeepsValidRows(s, store) ==
    WriteAll(store, SelectSeq(s.cache, LAMBDA t : UniqueOk(store, t) /\ NotNullOk(t)))

\* db.session.rollback() (line 367), also the session's removal at the end of
\* a request that raised: nothing of the session reaches the store
RollbackSession(s, store) == store

\* the response of a completed import (lines 370-394)
ImportSummary(s) ==
    [status             |-> "ok",
     tickets_created    |-> s.tickets_created,
     items_imported     |-> s.items_imported,
     duplicates_skipped |-> s.duplicates_skipped,
     rows_rejected      |-> s.rows_skipped,
     error_rows         |-> s.error_rows]

\* line 368: the IntegrityError of the commit, caught
IntegrityFailure == [status |-> "integrity_error"]

\* an exception that leaves the handler: the server answers 500
ServerError == [status |-> "exception"]

Finish(s, response) == [s EXCEPT !.pc = "done", !.response = response]

\* whether the next step of the request reads the store (and so autoflushes)
ReadsStore(s) ==
    \/ /\ s.pc = "row"
       /\ RowError(CurrentRow(s)) = NoError
       /\ CacheIndex(s.cache, AcceptedRow(CurrentRow(s)).slip_number) = 0
    \/ /\ s.pc = "attach"
       /\ ~s.cache[s.cur].loaded

\* whether the next step of the request writes to the database file
WritesStore(s) ==
    \/ s.pc \in {"row", "attach"} /\ ReadsStore(s) /\ s.dirty
    \/ s.pc = "commit" /\ s.dirty

(***************************************************************************)
(* Files                                                                   *)
(***************************************************************************)
\* the files that can be uploaded: up to MaxRows rows
Batches == UNION {[1..n -> Rows] : n \in 0..MaxRows}

(***************************************************************************)
(* State                                                                   *)
(***************************************************************************)
VARIABLES
    db,      \* the committed content of pinks.db
    writer,  \* the request holding SQLite's write lock, 0 for none
    sess,    \* each request's local state and session
    pre,     \* the store when each request's operation started
    ops,     \* the number of operations started
    call     \* the last direct call of a field normalizer and what it returned

vars == <<db, writer, sess, pre, ops, call>>

Procs == {1, 2}

\* no normalizer has been called
NoCall == [fn |-> "none", arg |-> <<>>, result |-> <<>>]

Init ==
    /\ db = EmptyDb
    /\ writer = 0
    /\ sess = [p \in Procs |-> IdleSession]
    /\ pre = [p \in Procs |-> EmptyDb]
    /\ ops = 0
    /\ call = NoCall

(***************************************************************************)
(* upload                                                                  *)
(***************************************************************************)
\* a file arrives and is read (lines 197-225)
Upload(p, batch) ==
    /\ sess[p].pc = "idle"
    /\ ops < MaxOps
    /\ sess' = [sess EXCEPT ![p] = BeginUpload(batch)]
    /\ pre' = [pre EXCEPT ![p] = db]
    /\ ops' = ops + 1
    /\ UNCHANGED <<db, writer, call>>

\* no file, or a file that is neither CSV nor Excel (lines 198-203, 212-213)
UploadRefused(p) ==
    /\ sess[p].pc = "idle"
    /\ ops < MaxOps
    /\ sess' = [sess EXCEPT ![p] = Finish(IdleSession, [status |-> "bad_request"])]
    /\ pre' = [pre EXCEPT ![p] = db]
    /\ ops' = ops + 1
    /\ UNCHANGED <<db, writer, call>>

\* the session flushes its changes before a query: it needs the write lock,
\* and the statements must satisfy the constraints
CanFlush(p) == writer \in {0, p} /\ FlushOk(sess[p], db)

Flushed(s) == [s EXCEPT !.dirty = FALSE]

\* one pass of the row loop up to the ticket (lines 228-327)
ProcessRow(p) ==
    LET s == sess[p]
    IN  /\ s.pc = "row"
        /\ WritesStore(s) => CanFlush(p)
        /\ sess' = [sess EXCEPT ![p] =
                      StepRow(IF WritesStore(s) THEN Flushed(s) ELSE s, db)]
        /\ writer' = IF WritesStore(s) THEN p ELSE writer
        /\ UNCHANGED <<db, pre, ops, call>>

\* the rest of the pass: duplicate check and item (lines 329-350)
AttachItem(p) ==
    LET s == sess[p]
    IN  /\ s.pc = "attach"
        /\ WritesStore(s) => CanFlush(p)
        /\ sess' = [sess EXCEPT ![p] =
                      StepAttach(IF WritesStore(s) THEN Flushed(s) ELSE s, db)]
        /\ writer' = IF WritesStore(s) THEN p ELSE writer
        /\ UNCHANGED <<db, pre, ops, call>>

\* lines 352-361
RecomputeTotals(p) ==
    /\ sess[p].pc = "totals"
    /\ sess' = [sess EXCEPT ![p] = StepTotals(sess[p])]
    /\ UNCHANGED <<db, writer, pre, ops, call>>

\* the commit succeeds and the summary is returned (lines 364-365, 370-394)
Commit(p) ==
    LET s == sess[p]
    IN  /\ s.pc = "commit"
        /\ s.dirty => CanFlush(p)
        /\ db' = CommitSession(s, db)
        /\ writer' = IF writer = p THEN 0 ELSE writer
        /\ sess' = [sess EXCEPT ![p] = Finish(s, ImportSummary(s))]
        /\ UNCHANGED <<pre, ops, call>>

\* the commit raises IntegrityError: rollback and the 500 answer (lines 366-368)
CommitFails(p) ==
    LET s == sess[p]
    IN  /\ s.pc = "commit"
        /\ s.dirty
        /\ writer \in {0, p}
        /\ ~FlushOk(s, db)
        /\ db' = RollbackSession(s, db)
        /\ writer' = 0
        /\ sess' = [sess EXCEPT ![p] = Finish(s, IntegrityFailure)]
        /\ UNCHANGED <<pre, ops, call>>

\* the autoflush before a query of the row loop raises IntegrityError, which
\* nothing catches
FlushFails(p) ==
    LET s == sess[p]
    IN  /\ s.pc \in {"row", "attach"}
        /\ WritesStore(s)
        /\ writer \in {0, p}
        /\ ~FlushOk(s, db)
        /\ db' = RollbackSession(s, db)
        /\ writer' = 0
        /\ sess' = [sess EXCEPT ![p] = Finish(s, ServerError)]
        /\ UNCHANGED <<pre, ops, call>>

\* another request holds the write lock for longer than SQLite waits:
\* OperationalError (database is locked), which nothing catches
LockTimeout(p) ==
    LET s == sess[p]
    IN  /\ s.pc \in {"row", "attach", "commit"}
        /\ WritesStore(s)
        /\ writer \notin {0, p}
        /\ db' = RollbackSession(s, db)
        /\ sess' = [sess EXCEPT ![p] = Finish(s, ServerError)]
        /\ UNCHANGED <<writer, pre, ops, call>>

\* the response is sent and the request's state is gone
Return(p) ==
    /\ sess[p].pc = "done"
    /\ sess' = [sess EXCEPT ![p] = IdleSession]
    /\ pre' = [pre EXCEPT ![p] = EmptyDb]
    /\ UNCHANGED <<db, writer, ops, call>>

(***************************************************************************)
(* add_pink_slip (POST)                                                    *)
(***************************************************************************)
\* lines 454-460
FormValues(form) ==
    [slip_number   |-> Strip(form.slip_number),
     first_initial |-> Take(Upper(Strip(form.first_initial)), 1),
     last_name     |-> Strip(form.last_name),
     phone         |-> _format_phone(form.phone),
     date_received |-> _format_date_val(form.date_received),
     due_date      |-> _format_date_val(form.due_date),
     due_time      |-> _convert_to_12hr(form.due_time)]

Min(a, b) == IF a <= b THEN a ELSE b

\* the number of items zip() pairs up
FormItemCount(form) ==
    Min(Len(form.item_type), Min(Len(form.work_description), Len(form.price)))

FormPriceText(form, i) ==
    RemoveChar(RemoveChar(Strip(form.price[i]), "$"), ",")

\* lines 473-482 for item i: its type resolves and its price is a number >= 0
FormItemOk(form, i) ==
    /\ _normalize_item_type(Strip(form.item_type[i])).valid
    /\ ParseFloat(FormPriceText(form, i)).ok
    /\ ~FloatLt(ParseFloat(FormPriceText(form, i)).val, FloatOf(0))

\* lines 467-483: whether the form passes validation
FormOk(form) ==
    /\ form.item_type # <<>>
    /\ \A i \in 1..FormItemCount(form) : FormItemOk(form, i)

\* validated_items
ValidatedItems(form) ==
    [i \in 1..FormItemCount(form) |->
        [new |-> TRUE,
         item_type |-> _normalize_item_type(Strip(form.item_type[i])).type,
         work_description |-> Strip(form.work_description[i]),
         price |-> ParseFloat(FormPriceText(form, i)).val]]

\* lines 485-511: the ticket object with the form's items and its new total
FormTicket(form, store) ==
    LET id == FindTicket(store, FormValues(form).slip_number)
        t0 == IF id = 0 THEN NewTicket(FormValues(form))
              ELSE [LoadTicket(store, id) EXCEPT !.items = ItemsOf(store, id),
                                                 !.loaded = TRUE]
    IN  RecomputeTotal([t0 EXCEPT !.items = @ \o ValidatedItems(form)])

\* the session of the request at its commit
FormSession(form, store) ==
    [IdleSession EXCEPT !.cache = <<FormTicket(form, store)>>, !.dirty = TRUE]

\* the whole handler; the IntegrityError of a flush or commit is not caught
AddPinkSlip(p, form) ==
    LET s == FormSession(form, db)
    IN  /\ sess[p].pc = "idle"
        /\ ops < MaxOps
        /\ writer = 0
        /\ pre' = [pre EXCEPT ![p] = db]
        /\ ops' = ops + 1
        /\ UNCHANGED <<writer, call>>
        /\ IF ~FormOk(form)
           THEN /\ db' = db
                /\ sess' = [sess EXCEPT ![p] =
                              Finish(IdleSession, [status |-> "bad_request"])]
           ELSE IF FlushOk(s, db)
           THEN /\ db' = CommitSession(s, db)
                /\ sess' = [sess EXCEPT ![p] =
                              Finish(IdleSession,
                                     [status |-> "added",
                                      items  |-> FormItemCount(form)])]
           ELSE /\ db' = RollbackSession(s, db)
                /\ sess' = [sess EXCEPT ![p] = Finish(IdleSession, ServerError)]

(***************************************************************************)
(* One request at a time                                                   *)
(***************************************************************************)
Next ==
    \/ \E batch \in Batches : Upload(1, batch)
    \/ UploadRefused(1)
    \/ ProcessRow(1)
    \/ AttachItem(1)
    \/ RecomputeTotals(1)
    \/ Commit(1)
    \/ CommitFails(1)
    \/ FlushFails(1)
    \/ \E form \in Forms : AddPinkSlip(1, form)
    \/ Return(1)

Spec == Init /\ [][Next]_vars

(***************************************************************************)
(* Imports only, one at a time, from the empty store                       *)
(***************************************************************************)
NextImports ==
    \/ \E batch \in Batches : Upload(1, batch)
    \/ UploadRefused(1)
    \/ ProcessRow(1)
    \/ AttachItem(1)
    \/ RecomputeTotals(1)
    \/ Commit(1)
    \/ CommitFails(1)
    \/ FlushFails(1)
    \/ Return(1)

SpecImports == Init /\ [][NextImports]_vars

(***************************************************************************)
(* Two imports at a time, each in its own request and session              *)
(***************************************************************************)
MaxConcRows == 2

ConcRows == {RowJeans, RowTee}

ConcBatches == UNION {[1..n -> ConcRows] : n \in 1..MaxConcRows}

\* a store that holds ticket 101 with one item
SeedDb == CommitSession(StepTotals(StepAttach(StepRow(BeginUpload(<<RowShirt>>),
                                                      EmptyDb), EmptyDb)), EmptyDb)

InitConc ==
    /\ db \in {EmptyDb, SeedDb}
    /\ writer = 0
    /\ sess = [p \in Procs |-> IdleSession]
    /\ pre = [p \in Procs |-> EmptyDb]
    /\ ops = 0
    /\ call = NoCall

NextConc ==
    \E p \in Procs :
        \/ \E batch \in ConcBatches : Upload(p, batch)
        \/ ProcessRow(p)
        \/ AttachItem(p)
        \/ RecomputeTotals(p)
        \/ Commit(p)
        \/ CommitFails(p)
        \/ FlushFails(p)
        \/ LockTimeout(p)
        \/ Return(p)

SpecConc == InitConc /\ [][NextConc]_vars

(***************************************************************************)
(* Two imports at a time whose files can name the same stored ticket with  *)
(* different items                                                         *)
(***************************************************************************)
OverlapRows == ConcRows \cup {RowDress}

OverlapBatches == UNION {[1..n -> OverlapRows] : n \in 1..MaxConcRows}

NextOverlap ==
    \E p \in Procs :
        \/ \E batch \in OverlapBatches : Upload(p, batch)
        \/ ProcessRow(p)
        \/ AttachItem(p)
        \/ RecomputeTotals(p)
        \/ Commit(p)
        \/ CommitFails(p)
        \/ FlushFails(p)
        \/ LockTimeout(p)
        \/ Return(p)

SpecOverlap == InitConc /\ [][NextOverlap]_vars

(***************************************************************************)
(* The normalizers called on their own                                     *)
(***************************************************************************)
MaxDigits == 12

\* texts given to _normalize_item_type: the canonical names, the alias keys,
\* an unknown word and the empty text, as written, lower-cased and
\* upper-cased, alone or with text before and after
TypeWords ==
    {VALID_ITEM_TYPES[i] : i \in 1..Len(VALID_ITEM_TYPES)}
    \cup {a[1] : a \in ITEM_TYPE_ALIASES}
    \cup {<<"x","y","z","1","2","3">>, <<>>}

TypeBefore == {<<>>, <<" ">>, <<"x">>, <<"c","o","a","t"," ">>}

TypeAfter == {<<>>, <<" ">>, <<"1">>, <<" ","s","h","i","r","t">>}

TypeInputs ==
    {b \o w \o a : b \in TypeBefore, a \in TypeAfter,
                   w \in TypeWords \cup {Lower(v) : v \in TypeWords}
                                   \cup {Upper(v) : v \in TypeWords}}

DigitCycle == <<"2","3","4","5","6","7","8","9","0","1">>

\* n digits, the first one given
DigitRun(first, n) ==
    [i \in 1..n |-> IF i = 1 THEN first ELSE DigitCycle[((i - 2) % 10) + 1]]

\* texts given to _format_phone: up to MaxDigits digits, alone, grouped with
\* a dash, or with other characters around them
PhoneInputs ==
    {b \o DigitRun(f, n) \o a :
        b \in {<<>>, <<" ">>, <<"(">>, <<"+">>}, a \in {<<>>, <<" ">>, <<"x">>},
        f \in {"1", "7"}, n \in 0..MaxDigits}
    \cup {DigitRun(f, 3) \o <<"-">> \o DigitRun("5", n) :
            f \in {"1", "7"}, n \in 0..(MaxDigits - 3)}

\* _normalize_item_type is called the way upload and add_pink_slip call it,
\* with the stripped text of the cell (lines 236 and 256, 473)
NormalizeItemType(item_type_str) ==
    /\ call = NoCall
    /\ call' = [fn |-> "_normalize_item_type", arg |-> Strip(item_type_str),
                result |-> _normalize_item_type(Strip(item_type_str))]
    /\ UNCHANGED <<db, writer, sess, pre, ops>>

\* _format_phone(phone_str) is called (lines 93-111)
FormatPhone(phone_str) ==
    /\ call = NoCall
    /\ call' = [fn |-> "_format_phone", arg |-> phone_str,
                result |-> _format_phone(phone_str)]
    /\ UNCHANGED <<db, writer, sess, pre, ops>>

NextCalls ==
    \/ \E item_type_str \in TypeInputs : NormalizeItemType(item_type_str)
    \/ \E phone_str \in PhoneInputs : FormatPhone(phone_str)

SpecCalls == Init /\ [][NextCalls]_vars

(***************************************************************************)
(* A whole import with no other request running: the steps of upload in    *)
(* order, from the file to the response.                                   *)
(***************************************************************************)
RECURSIVE RunSession(_, _)
RunSession(s, store) ==
    IF s.pc \in {"row", "attach"}
    THEN IF WritesStore(s) /\ ~FlushOk(s, store)
         THEN [store |-> RollbackSession(s, store), session |-> Finish(s, ServerError)]
         ELSE LET s0 == IF WritesStore(s) THEN Flushed(s) ELSE s
              IN  RunSession(IF s.pc = "row" THEN StepRow(s0, store)
                                             ELSE StepAttach(s0, store), store)
    ELSE IF s.pc = "totals" THEN RunSession(StepTotals(s), store)
    ELSE IF s.dirty /\ ~FlushOk(s, store)
    THEN [store |-> RollbackSession(s, store), session |-> Finish(s, IntegrityFailure)]
    ELSE [store |-> CommitSession(s, store), session |-> Finish(s, ImportSummary(s))]

ImportBatch(store, batch) == RunSession(BeginUpload(batch), store)

(***************************************************************************)
(* Properties                                                              *)
(***************************************************************************)
\* the request of the one-at-a-time specification
Main == sess[1]

\* an import has returned its summary
ImportDone == Main.pc = "done" /\ Main.response.status = "ok"

\* the (1-based) positions of the rows of a file that pass validation
AcceptedPositions(batch, n) ==
    {i \in 1..n : RowError(batch[i]) = NoError}

RowSlip(row) == AcceptedRow(row).slip_number

TotalsConsistent(store) ==
    \A i \in 1..Len(store.tickets) :
        store.tickets[i].total_amount = SumPrices(ItemsOf(store, i))

\* C1: every ticket of the store has total_amount equal to the sum of the
\* prices of the items attached to it, after any sequence of completed
\* imports (committed or rolled back) and manual entries.
C1_TotalIsSumOfItems == TotalsConsistent(db)

\* a ticket that got two items from an import and a third from a manual entry
C1_Witness ==
    /\ Main.pc = "done"
    /\ Main.response.status = "added"
    /\ \E i \in 1..Len(pre[1].tickets) :
            /\ Len(ItemsOf(pre[1], i)) = 2
            /\ Len(ItemsOf(db, i)) = 3
            /\ db.tickets[i].total_amount = FloatOf(40)

\* the columns the merge of lines 314-326 fills
FillColumns == {"first_initial", "last_name", "phone", "date_received",
                "due_date", "due_time"}

\* C2: importing a batch whose import committed a second time leaves the
\* store as it is, and the second run reports no ticket created, no item
\* imported and one duplicate for every row that passes validation.
C2_ImportIsIdempotent ==
    ImportDone =>
        LET again == ImportBatch(db, Main.df)
        IN  /\ again.store = db
            /\ again.session.response.status = "ok"
            /\ again.session.response.tickets_created = 0
            /\ again.session.response.items_imported = 0
            /\ again.session.response.duplicates_skipped =
                    Cardinality(AcceptedPositions(Main.df, Len(Main.df)))

\* a committed import into a store that held a ticket: it filled a column,
\* created a ticket, imported an item and skipped a duplicate
C2_Witness ==
    /\ ImportDone
    /\ pre[1] # EmptyDb
    /\ Main.tickets_created >= 1
    /\ Main.items_imported >= 1
    /\ Main.duplicates_skipped >= 1
    /\ \E k \in 1..Len(Main.cache) :
            Main.cache[k].id # 0 /\ Main.cache[k].changed \cap FillColumns # {}

\* C3: when the commit at the end of an import fails, the store is the store
\* of before the batch and the answer is the batch-level failure, without
\* counts or rejection report.
C3_FailedCommitChangesNothing ==
    (Main.pc = "done" /\ Main.response.status = "integrity_error") =>
        /\ db = pre[1]
        /\ DOMAIN Main.response = {"status"}

\* a failed commit of a session that had created a ticket, merged a column
\* into a stored one and added items to both
C3_Witness ==
    /\ Main.pc = "done"
    /\ Main.response.status = "integrity_error"
    /\ pre[1] # EmptyDb
    /\ Main.tickets_created >= 1
    /\ Main.items_imported >= 2
    /\ \E k \in 1..Len(Main.cache) :
            Main.cache[k].id # 0 /\ Main.cache[k].changed \cap FillColumns # {}

\* C4: a column of a stored ticket that is not empty before a batch has the
\* same value after it; a column changes only from empty to the non-empty
\* value of an accepted row of the batch that names the ticket.
C4_MergeFillsOnlyEmptyColumns ==
    Main.pc = "done" =>
        \A i \in 1..Len(pre[1].tickets) : \A c \in FillColumns :
            LET old == pre[1].tickets[i][c]
                new == db.tickets[i][c]
            IN  /\ db.tickets[i].slip_number = pre[1].tickets[i].slip_number
                /\ old # <<>> => new = old
                /\ new # old =>
                      /\ ImportDone
                      /\ old = <<>>
                      /\ new # <<>>
                      /\ \E j \in AcceptedPositions(Main.df, Len(Main.df)) :
                            /\ RowSlip(Main.df[j]) = pre[1].tickets[i].slip_number
                            /\ AcceptedRow(Main.df[j])[c] = new

\* an import that filled the empty phone of a stored ticket and kept its
\* first initial although the row supplied another one
C4_Witness ==
    /\ ImportDone
    /\ \E i \in 1..Len(pre[1].tickets) :
            /\ pre[1].tickets[i].phone = <<>>
            /\ db.tickets[i].phone # <<>>
            /\ \E j \in AcceptedPositions(Main.df, Len(Main.df)) :
                    /\ RowSlip(Main.df[j]) = pre[1].tickets[i].slip_number
                    /\ AcceptedRow(Main.df[j]).phone = db.tickets[i].phone
                    /\ AcceptedRow(Main.df[j]).first_initial # <<>>
                    /\ AcceptedRow(Main.df[j]).first_initial
                         # db.tickets[i].first_initial

\* the stored row of the ticket with this slip number
StoredTicket(store, slip_number) == store.tickets[FindTicket(store, slip_number)]

\* C5: a column of a ticket touched by a committed batch is empty after it
\* only if every accepted row of the batch naming the ticket left it empty
\* (rows after the first one, served from the cache, fill empty columns too).
C5_CacheHitFillsEmptyColumns ==
    ImportDone =>
        \A j \in AcceptedPositions(Main.df, Len(Main.df)) : \A c \in FillColumns :
            StoredTicket(db, RowSlip(Main.df[j]))[c] = <<>>
                => AcceptedRow(Main.df[j])[c] = <<>>

\* the rows of the import in progress that are behind it (completed), and
\* those it has read (the row at the duplicate check included)
RowsCompleted == Main.idx

RowsRead == IF Main.pc = "attach" THEN Main.idx + 1 ELSE Main.idx

RejectedPositions(batch, n) == (1..n) \ AcceptedPositions(batch, n)

\* the entries of error_rows for the row at position i (row number i + 1)
ErrorEntries(i) ==
    {e \in 1..Len(Main.error_rows) : Main.error_rows[e].row = i + 1}

NewItemCount(cache) ==
    Cardinality({<<k, i>> \in (1..Len(cache)) \X (1..MaxRows + 1) :
                    i <= Len(cache[k].items) /\ cache[k].items[i].new})

\* C6: a rejected row has no effect but its rejection: lookups, cache
\* entries, tickets and items all come from accepted rows; an identifier whose
\* rows are all rejected is not in the store after the batch unless it was
\* before; the row with price "-5" has exactly one rejection entry.
C6_RejectedRowsHaveNoEffect ==
    LET df  == Main.df
        acc == AcceptedPositions(df, RowsRead)
        rej == RejectedPositions(df, RowsCompleted)
    IN  /\ \A q \in 1..Len(Main.queries) :
            /\ Main.queries[q].row - 1 \in acc
            /\ Main.queries[q].slip_number = RowSlip(df[Main.queries[q].row - 1])
        /\ {Main.cache[k].slip_number : k \in 1..Len(Main.cache)}
              = {RowSlip(df[i]) : i \in acc}
        /\ Main.tickets_created <= Len(Main.cache)
        /\ Main.items_imported + Main.duplicates_skipped
              = Cardinality(AcceptedPositions(df, RowsCompleted))
        /\ NewItemCount(Main.cache) = Main.items_imported
        /\ Main.rows_skipped = Cardinality(rej)
        /\ Len(Main.error_rows) = Cardinality(rej)
        /\ \A i \in rej : Cardinality(ErrorEntries(i)) = 1
        /\ \A i \in 1..RowsCompleted :
              df[i] = RowNegative =>
                 \E e \in ErrorEntries(i) : Main.error_rows[e].error = NegativePrice
        /\ ImportDone =>
              /\ \A i \in 1..Len(db.tickets) :
                    i > Len(pre[1].tickets) =>
                        db.tickets[i].slip_number \in {RowSlip(df[j]) : j \in acc}
              /\ \A i \in rej :
                    (/\ RowValues(df[i]).slip_number \notin {RowSlip(df[j]) : j \in acc}
                     /\ FindTicket(pre[1], RowValues(df[i]).slip_number) = 0)
                    => FindTicket(db, RowValues(df[i]).slip_number) = 0

\* a committed import with an accepted row and the row with price "-5",
\* whose identifier no accepted row names and the store did not hold
C6_Witness ==
    /\ ImportDone
    /\ Main.items_imported >= 1
    /\ \E i \in 1..Len(Main.df) :
            /\ Main.df[i] = RowNegative
            /\ Cardinality(ErrorEntries(i)) = 1
            /\ FindTicket(pre[1], Slip102) = 0
            /\ FindTicket(db, Slip102) = 0

\* the four checks, each on its own
FailsIdentifier(row) == Strip(row.slip_number) = <<>>

FailsCategory(row) == ~_normalize_item_type(Strip(row.item_type)).valid

CleanPrice(row) == RemoveChar(RemoveChar(Strip(row.price), "$"), ",")

FailsPriceFormat(row) == ~ParseFloat(CleanPrice(row)).ok

FailsNegative(row) ==
    ParseFloat(CleanPrice(row)).ok /\ FloatLt(ParseFloat(CleanPrice(row)).val, FloatOf(0))

\* the number (1..4) of the first check a row fails, 0 when it passes all
FirstFailure(row) ==
    IF FailsIdentifier(row) THEN 1
    ELSE IF FailsCategory(row) THEN 2
    ELSE IF FailsPriceFormat(row) THEN 3
    ELSE IF FailsNegative(row) THEN 4
    ELSE 0

FirstFailureOf == [r \in Rows |-> FirstFailure(r)]

\* the check a rejection reason belongs to
ReasonCheck(error) ==
    IF error = MissingSlipNumber THEN 1
    ELSE IF error[1] = "Invalid item_type" THEN 2
    ELSE IF error = InvalidPriceFormat THEN 3
    ELSE IF error = NegativePrice THEN 4
    ELSE 0

\* C7: the checks run in the order identifier, category, price format,
\* price >= 0 and stop at the first failure: a row that fails has exactly one
\* rejection record, with the reason of the first check it fails, and counts
\* once in rows_skipped; a row that passes has none.
C7_FirstFailingCheckOnly ==
    /\ \A i \in 1..RowsCompleted :
          IF FirstFailureOf[Main.df[i]] = 0 THEN ErrorEntries(i) = {}
          ELSE /\ Cardinality(ErrorEntries(i)) = 1
               /\ \A e \in ErrorEntries(i) :
                     ReasonCheck(Main.error_rows[e].error) = FirstFailureOf[Main.df[i]]
    /\ Main.rows_skipped
          = Cardinality({i \in 1..RowsCompleted : FirstFailureOf[Main.df[i]] # 0})
    /\ Len(Main.error_rows) = Main.rows_skipped

ManyFailures == {r \in Rows :
                    \/ FailsIdentifier(r) /\ FailsCategory(r) /\ FailsNegative(r)
                    \/ ~FailsIdentifier(r) /\ FailsCategory(r) /\ FailsPriceFormat(r)}

\* a finished import of rows failing several checks: one without identifier,
\* category or valid price, one with a bad category and a bad price
C7_Witness ==
    /\ ImportDone
    /\ Main.rows_skipped = 2
    /\ \E i, j \in 1..Len(Main.df) :
          /\ Main.df[i] \in ManyFailures /\ FirstFailureOf[Main.df[i]] = 1
          /\ Main.df[j] \in ManyFailures /\ FirstFailureOf[Main.df[j]] = 2

\* same category, same description, numerically equal price
SameItem(x, y) ==
    /\ x.item_type = y.item_type
    /\ x.work_description = y.work_description
    /\ FloatEq(x.price, y.price)

\* the positions among the first n rows of a batch of the accepted rows whose
\* ticket holds no same item, neither in the store nor from an earlier row
RECURSIVE FreshPositions(_, _, _)
FreshPositions(store, batch, n) ==
    IF n = 0 THEN {}
    ELSE LET F    == FreshPositions(store, batch, n - 1)
             a    == AcceptedRow(batch[n])
             id   == FindTicket(store, a.slip_number)
             held == \/ /\ id # 0
                        /\ \E x \in 1..Len(ItemsOf(store, id)) :
                              SameItem(ItemsOf(store, id)[x], a)
                     \/ \E j \in F :
                          /\ RowSlip(batch[j]) = a.slip_number
                          /\ SameItem(AcceptedRow(batch[j]), a)
         IN  IF RowError(batch[n]) # NoError \/ held THEN F ELSE F \cup {n}

NoDuplicateSiblings(store) ==
    \A i, j \in 1..Len(store.items) :
        (i < j /\ store.items[i].slip_id = store.items[j].slip_id)
            => ~SameItem(store.items[i], store.items[j])

\* C8: an accepted row counts as a duplicate, and not as an imported item,
\* exactly when its ticket already holds the same item, from the store or
\* from an earlier row of the batch; a committed import into a store without
\* duplicate siblings leaves none; the batch [item A; item B; item B] for a new
\* ticket reports 1 ticket created, 2 items imported, 1 duplicate, 0 rejected.
C8_DuplicatesSkippedPerTicket ==
    /\ Main.items_imported
          = Cardinality(FreshPositions(pre[1], Main.df, RowsCompleted))
    /\ Main.duplicates_skipped
          = Cardinality(AcceptedPositions(Main.df, RowsCompleted)
                        \ FreshPositions(pre[1], Main.df, RowsCompleted))
    /\ (ImportDone /\ NoDuplicateSiblings(pre[1])) => NoDuplicateSiblings(db)
    /\ (ImportDone /\ Main.df = <<RowShirt, RowJeans, RowJeans>>
                   /\ FindTicket(pre[1], Slip101) = 0)
          => /\ Main.response.tickets_created = 1
             /\ Main.response.items_imported = 2
             /\ Main.response.duplicates_skipped = 1
             /\ Main.response.rows_rejected = 0
             /\ StoredTicket(db, Slip101).total_amount = FloatOf(30)

\* the batch [Shirt 10; Jeans 20; Jeans 20] for the new ticket 101, committed
\* into a store that holds another ticket
C8_Witness ==
    /\ ImportDone
    /\ Main.df = <<RowShirt, RowJeans, RowJeans>>
    /\ FindTicket(pre[1], Slip101) = 0
    /\ pre[1] # EmptyDb

\* C10: the counts of a committed import are the growth of the store:
\* tickets_created is the number of tickets it holds that it did not hold
\* before, which is the number of distinct identifiers of accepted rows that
\* were not stored, and items_imported is the number of new items.
C10_CountsMatchStoreGrowth ==
    ImportDone =>
        LET before == {pre[1].tickets[i].slip_number : i \in 1..Len(pre[1].tickets)}
            named  == {RowSlip(Main.df[j]) :
                          j \in AcceptedPositions(Main.df, Len(Main.df))}
        IN  /\ \A i \in 1..Len(pre[1].tickets) :
                  db.tickets[i].slip_number = pre[1].tickets[i].slip_number
            /\ \A i \in 1..Len(db.tickets) :
                  i > Len(pre[1].tickets) => db.tickets[i].slip_number \notin before
            /\ \A i \in 1..Len(pre[1].items) : db.items[i] = pre[1].items[i]
            /\ Main.response.tickets_created = Len(db.tickets) - Len(pre[1].tickets)
            /\ Main.response.tickets_created = Cardinality(named \ before)
            /\ Main.response.items_imported = Len(db.items) - Len(pre[1].items)

\* a committed import that created one ticket, found another in the store
\* and imported two items
C10_Witness ==
    /\ ImportDone
    /\ Main.response.tickets_created = 1
    /\ Main.response.items_imported = 2
    /\ \E k \in 1..Len(Main.cache) : Main.cache[k].id # 0

\* whether a request's batch created (in its session) a ticket for an
\* identifier the store did not hold when the batch's lookup ran
CreatesTicket(p, slip_number) ==
    \E k \in 1..Len(sess[p].cache) :
        /\ sess[p].cache[k].slip_number = slip_number
        /\ sess[p].cache[k].id = 0

\* C9: whatever the interleaving of two concurrent imports' lookups and
\* commits, the committed store never holds two tickets with the same
\* identifier.
C9_OneTicketPerIdentifier ==
    \A i, j \in 1..Len(db.tickets) :
        db.tickets[i].slip_number = db.tickets[j].slip_number => i = j

\* both imports looked the same identifier up before either committed and
\* both created a ticket for it; one committed, the other failed, and the
\* store holds the identifier once
C9_Witness ==
    /\ sess[1].pc = "done" /\ sess[2].pc = "done"
    /\ \E s \in {Slip101, Slip102} :
          /\ CreatesTicket(1, s) /\ CreatesTicket(2, s)
          /\ FindTicket(pre[1], s) = 0 /\ FindTicket(pre[2], s) = 0
          /\ FindTicket(db, s) # 0
    /\ \E p, q \in Procs :
          /\ sess[p].response.status = "ok"
          /\ sess[q].response.status = "integrity_error"

\* category, description and price of an item or of an accepted row
ItemValues(x) ==
    [item_type |-> x.item_type, work_description |-> x.work_description,
     price |-> x.price]

ItemList(items) == [i \in 1..Len(items) |-> ItemValues(items[i])]

\* the items of the accepted, non-duplicate rows among the first n rows of a
\* batch that name a ticket, in row order
RECURSIVE AddedItems(_, _, _, _)
AddedItems(store, batch, n, slip_number) ==
    IF n = 0 THEN <<>>
    ELSE LET rest == AddedItems(store, batch, n - 1, slip_number)
         IN  IF n \in FreshPositions(store, batch, n) /\ RowSlip(batch[n]) = slip_number
             THEN Append(rest, ItemValues(AcceptedRow(batch[n])))
             ELSE rest

\* C11: after a committed import the item list of every ticket is its list
\* before the batch, unchanged, followed by one item per accepted,
\* non-duplicate row of the batch naming the ticket, in row order; an import
\* deletes no ticket, deletes or edits no stored item, changes no identifier,
\* and leaves a ticket that no accepted row names entirely unchanged.
C11_ItemListFrame ==
    Main.df # <<>> =>
        /\ Len(db.tickets) >= Len(pre[1].tickets)
        /\ \A i \in 1..Len(pre[1].tickets) :
              /\ db.tickets[i].slip_number = pre[1].tickets[i].slip_number
              /\ (\A j \in AcceptedPositions(Main.df, Len(Main.df)) :
                     RowSlip(Main.df[j]) # pre[1].tickets[i].slip_number)
                 => db.tickets[i] = pre[1].tickets[i]
        /\ Len(db.items) >= Len(pre[1].items)
        /\ \A k \in 1..Len(pre[1].items) : db.items[k] = pre[1].items[k]
        /\ ImportDone =>
              \A i \in 1..Len(db.tickets) :
                  ItemList(ItemsOf(db, i))
                     = ItemList(ItemsOf(pre[1], i))
                       \o AddedItems(pre[1], Main.df, Len(Main.df),
                                     db.tickets[i].slip_number)

\* a committed import into a store of two tickets: one gets an item after
\* the one it had while a duplicate row for it is skipped, the other is named
\* by no accepted row
C11_Witness ==
    /\ ImportDone
    /\ Len(pre[1].tickets) = 2
    /\ Main.duplicates_skipped >= 1
    /\ \E i, j \in 1..2 :
          /\ Len(ItemsOf(pre[1], i)) >= 1
          /\ Len(ItemsOf(db, i)) > Len(ItemsOf(pre[1], i))
          /\ Len(ItemsOf(pre[1], j)) >= 1
          /\ \A r \in AcceptedPositions(Main.df, Len(Main.df)) :
                RowSlip(Main.df[r]) # pre[1].tickets[j].slip_number

\* the position of the first accepted row of a batch carrying an identifier
FirstAcceptedRow(batch, slip_number) ==
    CHOOSE i \in AcceptedPositions(batch, Len(batch)) :
        /\ RowSlip(batch[i]) = slip_number
        /\ \A j \in AcceptedPositions(batch, i - 1) : RowSlip(batch[j]) # slip_number

\* C12: during one import the store is asked for a ticket at most once per
\* distinct identifier, by the first accepted row carrying it; every later
\* accepted row with the identifier gets the cached record, which is the one
\* the first row found in the store or created.
C12_OneLookupPerIdentifier ==
    Main.df # <<>> =>
        /\ \A q, r \in 1..Len(Main.queries) :
              Main.queries[q].slip_number = Main.queries[r].slip_number => q = r
        /\ \A q \in 1..Len(Main.queries) :
              /\ Main.queries[q].row - 1
                    = FirstAcceptedRow(Main.df, Main.queries[q].slip_number)
              /\ Main.cache[q].slip_number = Main.queries[q].slip_number
              /\ Main.cache[q].id = FindTicket(pre[1], Main.queries[q].slip_number)
        /\ Len(Main.cache) = Len(Main.queries)
        /\ Len(Main.queries)
              = Cardinality({RowSlip(Main.df[i]) :
                                i \in AcceptedPositions(Main.df, RowsRead)})
        /\ Main.pc = "attach" =>
              /\ Main.cur \in 1..Len(Main.cache)
              /\ Main.cache[Main.cur].slip_number = RowSlip(CurrentRow(Main))

\* a committed import of three accepted rows with two identifiers, one found
\* in the store and one created: two lookups
C12_Witness ==
    /\ ImportDone
    /\ Len(Main.df) = 3
    /\ AcceptedPositions(Main.df, 3) = 1..3
    /\ Len(Main.queries) = 2
    /\ \E k, l \in 1..2 : Main.cache[k].id # 0 /\ Main.cache[l].id = 0

\* the closed set of categories
Categories == {VALID_ITEM_TYPES[i] : i \in 1..Len(VALID_ITEM_TYPES)}

\* what the resolver returns for the category cell of each row
Resolved == [r \in Rows |-> _normalize_item_type(Strip(r.item_type))]

\* C13: every item of the store, and every item a request is about to
\* store, has a category of the closed set, after any sequence of imports and
\* manual entries from the empty store; the resolver returns valid only with
\* a category of the set.
C13_CategoriesAreClosed ==
    /\ \A k \in 1..Len(db.items) : db.items[k].item_type \in Categories
    /\ \A k \in 1..Len(Main.cache) : \A i \in 1..Len(Main.cache[k].items) :
          Main.cache[k].items[i].item_type \in Categories
    /\ \A i \in 1..Len(Main.df) :
          LET r == Resolved[Main.df[i]]
          IN  /\ r.valid => r.type \in Categories
              /\ i \in AcceptedPositions(Main.df, Len(Main.df))
                    => r.valid /\ AcceptedRow(Main.df[i]).item_type = r.type

\* a manual entry added a Skirt to ticket 102, which held the Shirt an import
\* had resolved from "t-shirt"
C13_Witness ==
    /\ Main.pc = "done"
    /\ Main.response.status = "added"
    /\ \E k \in 1..Len(pre[1].items) :
          /\ pre[1].items[k].item_type = Shirt
          /\ pre[1].tickets[pre[1].items[k].slip_id].slip_number = Slip102
    /\ \E k \in 1..Len(db.items) :
          k > Len(pre[1].items) /\ db.items[k].item_type = Skirt

\* price >= 0 (false of NaN, as every comparison with NaN)
NonNegative(price) == ~price.nan /\ price.v >= 0

\* a form with an item whose price parses to a negative number
FormHasNegativePrice(form) ==
    \E i \in 1..FormItemCount(form) :
        /\ ParseFloat(FormPriceText(form, i)).ok
        /\ FloatLt(ParseFloat(FormPriceText(form, i)).val, FloatOf(0))

\* the rows whose price parses to a negative number
NegativeRows == {r \in Rows : FailsNegative(r)}

\* every stored item has price >= 0, and the rows of an import whose price
\* parses to a negative number are among the rejected ones
PricesNonNegative ==
    /\ \A k \in 1..Len(db.items) : NonNegative(db.items[k].price)
    /\ \A k \in 1..Len(Main.cache) : \A i \in 1..Len(Main.cache[k].items) :
          ~FloatLt(Main.cache[k].items[i].price, FloatOf(0))
    /\ \A i \in 1..RowsCompleted :
          Main.df[i] \in NegativeRows =>
              /\ i \notin AcceptedPositions(Main.df, RowsCompleted)
              /\ Cardinality(ErrorEntries(i)) = 1

\* a manual entry with a negative price is refused and stores nothing
NegativeFormRefused ==
    \A form \in Forms :
        (AddPinkSlip(1, form) /\ FormHasNegativePrice(form))
            => /\ db' = db
               /\ sess'[1].response.status = "bad_request"

\* C14: every item of the store has price >= 0, after any sequence of
\* imports and manual entries from the empty store; a row or a form item
\* whose price parses to a negative number never produces an item.
C14_PricesAreNonNegative == []PricesNonNegative /\ [][NegativeFormRefused]_vars

\* a committed import that rejected a row for its price "-5" alone and added
\* items to a store that held some
C14_Witness ==
    /\ ImportDone
    /\ Main.items_imported >= 1
    /\ \E i \in 1..Len(Main.df) :
          Main.df[i] \in NegativeRows /\ FirstFailureOf[Main.df[i]] = 4
    /\ Len(pre[1].items) >= 1
    /\ Len(db.items) > Len(pre[1].items)

\* text t occurs in text s (a prefix is an occurrence at the start)
OccursIn(t, s) ==
    \E k \in 0..(Len(s) - Len(t)) : SubSeq(s, k + 1, k + Len(t)) = t

\* the positions in the fixed order of the canonical categories whose
\* lower-cased name occurs in the lower-cased text
NamesInside(text) ==
    {i \in 1..Len(VALID_ITEM_TYPES) : OccursIn(Lower(VALID_ITEM_TYPES[i]), Lower(text))}

Resolution(type) == [type |-> type, valid |-> TRUE]

NoResolution == [type |-> NoType, valid |-> FALSE]

\* what the resolution order gives for a text
ResolvedInOrder(text) ==
    IF text = <<>> THEN NoResolution
    ELSE IF \E c \in Categories : Lower(c) = Lower(text)
    THEN Resolution(CHOOSE c \in Categories : Lower(c) = Lower(text))
    ELSE IF \E a \in ITEM_TYPE_ALIASES : a[1] = Lower(text)
    THEN Resolution((CHOOSE a \in ITEM_TYPE_ALIASES : a[1] = Lower(text))[2])
    ELSE IF NamesInside(text) # {}
    THEN Resolution(VALID_ITEM_TYPES[CHOOSE i \in NamesInside(text) :
                                        \A j \in NamesInside(text) : i <= j])
    ELSE NoResolution

\* C15: the resolver returns the first match of: (1) case-insensitive
\* equality with a canonical category, (2) case-insensitive equality with an
\* alias key, (3) the first canonical category, in the order Shirt ... Other,
\* whose lower-cased name is a prefix or substring of the lower-cased input,
\* (4) otherwise (None, false); empty input gives (None, false); "t-shirt"
\* gives (Shirt, true), "BLAZER" (Jacket, true), "xyz123" (None, false).
C15_ResolutionOrder ==
    call.fn = "_normalize_item_type" =>
        /\ call.result = ResolvedInOrder(call.arg)
        /\ call.arg = <<"t","-","s","h","i","r","t">> => call.result = Resolution(Shirt)
        /\ call.arg = <<"B","L","A","Z","E","R">> => call.result = Resolution(Jacket)
        /\ call.arg = <<"x","y","z","1","2","3">> => call.result = NoResolution

\* "coat jeans" is no category and no alias and holds two canonical names:
\* Jeans, the earlier one in the fixed order, is returned
C15_Witness ==
    /\ call.fn = "_normalize_item_type"
    /\ call.arg = <<"c","o","a","t"," ","j","e","a","n","s">>
    /\ call.result = Resolution(Jeans)

\* the digits of a text, in order
DigitsOf(text) ==
    SelectSeq(text, LAMBDA c : c \in {"0","1","2","3","4","5","6","7","8","9"})

\* "(AAA) PPP-NNNN" of ten digits
TenDigitFormat(d) ==
    <<"(", d[1], d[2], d[3], ")", " ", d[4], d[5], d[6], "-", d[7], d[8], d[9], d[10]>>

\* what the digit count of a non-empty text determines
PhoneByDigitCount(text) ==
    LET d == DigitsOf(text)
    IN  IF Len(d) = 7 THEN TenDigitFormat(<<"7","0","4">> \o d)
        ELSE IF Len(d) = 10 THEN TenDigitFormat(d)
        ELSE IF Len(d) = 11 /\ d[1] = "1" THEN TenDigitFormat(Tail(d))
        ELSE Strip(text)

\* C16: the phone normalizer's result is determined by the digits of the
\* input: 7 digits give the format of "704" and the digits, 10 digits give
\* "(AAA) PPP-NNNN", 11 digits with a leading 1 give the format of the last
\* 10; any other digit count of a non-empty input, no digit at all included,
\* gives the trimmed input unchanged.
C16_PhoneByDigitCount ==
    (call.fn = "_format_phone" /\ call.arg # <<>>) =>
        call.result = PhoneByDigitCount(call.arg)

\* the positions of the rejected rows among the first n rows of a batch, in
\* input order
RECURSIVE RejectedInOrder(_, _)
RejectedInOrder(batch, n) ==
    IF n = 0 THEN <<>>
    ELSE IF FirstFailureOf[batch[n]] # 0
    THEN Append(RejectedInOrder(batch, n - 1), n)
    ELSE RejectedInOrder(batch, n - 1)

\* the identifier cell of each row, trimmed
TrimmedIdentifier == [r \in Rows |-> Strip(r.slip_number)]

\* C17: the rejection list is in input-row order, one record per rejected
\* row; a record's row number is the row's 0-based data index plus 2, so the
\* numbers increase strictly; the list has rows_rejected entries; a record
\* for a missing identifier carries the empty identifier, every other record
\* the row's trimmed identifier.
C17_RejectionListInRowOrder ==
    Main.df # <<>> =>
        LET rej == RejectedInOrder(Main.df, RowsCompleted)
        IN  /\ Len(Main.error_rows) = Len(rej)
            /\ Main.rows_skipped = Len(rej)
            /\ \A e \in 1..Len(rej) :
                  /\ Main.error_rows[e].row = (rej[e] - 1) + 2
                  /\ Main.error_rows[e].slip_number
                        = IF ReasonCheck(Main.error_rows[e].error) = 1 THEN <<>>
                          ELSE TrimmedIdentifier[Main.df[rej[e]]]
                  /\ ReasonCheck(Main.error_rows[e].error) = 1
                        <=> TrimmedIdentifier[Main.df[rej[e]]] = <<>>
            /\ \A e, f \in 1..Len(Main.error_rows) :
                  e < f => Main.error_rows[e].row < Main.error_rows[f].row
            /\ ImportDone =>
                  /\ Main.response.error_rows = Main.error_rows
                  /\ Main.response.rows_rejected = Len(Main.error_rows)

\* a committed import whose first row has no identifier, whose second row is
\* accepted and whose third row, for ticket 101, has a bad price: records
\* for rows 2 and 4
C17_Witness ==
    /\ ImportDone
    /\ Main.items_imported = 1
    /\ Len(Main.response.error_rows) = 2
    /\ Main.response.error_rows[1].row = 2
    /\ Main.response.error_rows[1].slip_number = <<>>
    /\ Main.response.error_rows[2].row = 4
    /\ Main.response.error_rows[2].slip_number = Slip101

\* the total a ticket object of the cache had when the batch obtained it
TotalWhenObtained(t) ==
    IF t.id = 0 THEN FloatOf(0) ELSE pre[1].tickets[t.id].total_amount

\* while rows are being processed no ticket of the cache has had its total
\* written; once the loop of lines 352-361 has run every one has the sum of
\* its items
TotalsWrittenAfterRows ==
    /\ Main.pc \in {"row", "attach", "totals"} =>
          \A k \in 1..Len(Main.cache) :
              /\ Main.cache[k].total_amount = TotalWhenObtained(Main.cache[k])
              /\ "total_amount" \notin Main.cache[k].changed
    /\ Main.pc = "commit" =>
          \A k \in 1..Len(Main.cache) :
              Main.cache[k].total_amount = SumPrices(Main.cache[k].items)

\* a step that changes a total of the cache is the one step after the last
\* row, and it assigns every ticket of the cache; the store changes only at the
\* commit that follows it
TotalsWrittenOnce ==
    /\ (Main.df # <<>> /\ sess'[1].df = Main.df /\ sess'[1].cache # Main.cache
        /\ \E k \in 1..Len(Main.cache) :
              sess'[1].cache[k].total_amount # Main.cache[k].total_amount)
          => /\ Main.pc = "totals"
             /\ Main.idx = Len(Main.df)
             /\ sess'[1].pc = "commit"
             /\ Len(sess'[1].cache) = Len(Main.cache)
             /\ \A k \in 1..Len(Main.cache) :
                   /\ sess'[1].cache[k].total_amount = SumPrices(Main.cache[k].items)
                   /\ sess'[1].cache[k].items = Main.cache[k].items
    /\ Main.pc = "totals" => sess'[1].pc \in {"totals", "commit"}
    /\ (Main.df # <<>> /\ db' # db) => Main.pc = "commit" /\ sess'[1].pc = "done"

\* C18: within an import no total_amount is written before the last row has
\* been processed; after the row loop total_amount is assigned once for each
\* ticket of the batch cache, before the single commit.
C18_TotalsAfterAllRows == []TotalsWrittenAfterRows /\ [][TotalsWrittenOnce]_vars

\* the totals of two tickets have just been assigned after three accepted
\* rows: a stored ticket whose total changed and a new one
C18_Witness ==
    /\ Main.pc = "commit"
    /\ Main.idx = 3
    /\ Main.items_imported = 3
    /\ Len(Main.cache) = 2
    /\ \E k, l \in 1..2 :
          /\ Main.cache[k].id # 0
          /\ Main.cache[k].total_amount # pre[1].tickets[Main.cache[k].id].total_amount
          /\ Main.cache[l].id = 0
          /\ Main.cache[l].total_amount # FloatOf(0)

\* the items a request's import added to the ticket with an identifier
ItemsAddedBy(p, slip_number) ==
    LET k == CacheIndex(sess[p].cache, slip_number)
    IN  IF k = 0 THEN <<>>
        ELSE SelectSeq(sess[p].cache[k].items, LAMBDA it : it.new)

\* two imports have committed, each having added an item, different from the
\* other's, to a ticket that was stored before either began
BothAddedTo(slip_number) ==
    /\ \A p \in Procs : /\ sess[p].pc = "done"
                        /\ sess[p].response.status = "ok"
                        /\ FindTicket(pre[p], slip_number) # 0
                        /\ ItemsAddedBy(p, slip_number) # <<>>
    /\ \A i \in 1..Len(ItemsAddedBy(1, slip_number)) :
       \A j \in 1..Len(ItemsAddedBy(2, slip_number)) :
          ~SameItem(ItemsAddedBy(1, slip_number)[i], ItemsAddedBy(2, slip_number)[j])

\* C19: when two concurrent imports each add a different accepted item to
\* the same stored ticket, then after both have committed the ticket's
\* total_amount is the sum of the prices of all its items, whatever the
\* interleaving of their reads, recomputations and commits.
C19_TotalSurvivesOverlap ==
    \A slip_number \in {Slip101, Slip102} :
        BothAddedTo(slip_number) =>
            StoredTicket(db, slip_number).total_amount
                = SumPrices(ItemsOf(db, FindTicket(db, slip_number)))

\* the value a name column gets at creation: the supplied one, or the default
OrDefault(value, default) == IF value # <<>> THEN value ELSE default

\* every stored ticket has a first initial and a last name; during an import
\* the tickets found in the store keep theirs, and a ticket the import creates
\* has those of the first accepted row naming it, or the defaults
NamesSetAtCreation ==
    /\ \A i \in 1..Len(db.tickets) :
          db.tickets[i].first_initial # <<>> /\ db.tickets[i].last_name # <<>>
    /\ Main.df # <<>> =>
          \A k \in 1..Len(Main.cache) :
              LET t == Main.cache[k]
                  a == AcceptedRow(Main.df[FirstAcceptedRow(Main.df, t.slip_number)])
              IN  IF t.id # 0
                  THEN /\ t.first_initial = pre[1].tickets[t.id].first_initial
                       /\ t.last_name = pre[1].tickets[t.id].last_name
                  ELSE /\ t.first_initial = OrDefault(a.first_initial, <<"?">>)
                       /\ t.last_name = OrDefault(a.last_name, Unknown)

\* no step changes the first initial or the last name of a stored ticket
NamesNeverChange ==
    \A i \in 1..Len(db.tickets) :
        /\ i <= Len(db'.tickets)
        /\ db'.tickets[i].first_initial = db.tickets[i].first_initial
        /\ db'.tickets[i].last_name = db.tickets[i].last_name

\* C20: the defaults '?' and 'Unknown' are assigned only when a ticket is
\* constructed, never by a merge; every ticket created by an import or a
\* manual entry has a first initial and a last name, so no later import
\* changes them.
C20_DefaultsOnlyAtCreation == []NamesSetAtCreation /\ [][NamesNeverChange]_vars

\* a committed import with an accepted row that supplies an initial and a
\* last name for a stored ticket holding the defaults, which it keeps
C20_Witness ==
    /\ ImportDone
    /\ \E i \in 1..Len(pre[1].tickets) :
          /\ pre[1].tickets[i].first_initial = <<"?">>
          /\ pre[1].tickets[i].last_name = Unknown
          /\ db.tickets[i].first_initial = <<"?">>
          /\ db.tickets[i].last_name = Unknown
          /\ \E j \in AcceptedPositions(Main.df, Len(Main.df)) :
                /\ RowSlip(Main.df[j]) = pre[1].tickets[i].slip_number
                /\ AcceptedRow(Main.df[j]).first_initial # <<>>
                /\ AcceptedRow(Main.df[j]).last_name # <<>>

\* the rows counted so far in one of the three outcomes
RowsCounted == Main.items_imported + Main.duplicates_skipped + Main.rows_skipped

\* the row loop is over: the totals, the commit, or the answer after the commit
RowLoopEnded ==
    \/ Main.pc \in {"totals", "commit"}
    \/ Main.pc = "done" /\ Main.response.status \in {"ok", "integrity_error"}

\* at every point of an import the counted rows are the rows behind it, and
\* once the loop is over these are all the rows of the file; the summary
\* reports the same counts
EveryRowCounted ==
    /\ RowsCounted = RowsCompleted
    /\ RowLoopEnded => RowsCounted = Len(Main.df)
    /\ ImportDone =>
          Main.response.items_imported + Main.response.duplicates_skipped
             + Main.response.rows_rejected = Len(Main.df)

\* a step that completes a row counts it in exactly one outcome, and a step
\* that counts a rejected or duplicate row goes on to the next row of the
\* file (to the totals after the last row), never out of the loop
OneOutcomePerRow ==
    LET s == Main
        t == Main'
        d == <<t.items_imported - s.items_imported,
               t.duplicates_skipped - s.duplicates_skipped,
               t.rows_skipped - s.rows_skipped>>
    IN  (s.pc \in {"row", "attach"} /\ t.pc # "idle") =>
           /\ t.df = s.df
           /\ d \in {<<0, 0, 0>>, <<1, 0, 0>>, <<0, 1, 0>>, <<0, 0, 1>>}
           /\ d # <<0, 0, 0>> <=> t.idx = s.idx + 1
           /\ d = <<0, 0, 0>> => t.idx = s.idx
           /\ d \in {<<0, 1, 0>>, <<0, 0, 1>>} =>
                 t.pc = IF t.idx < Len(s.df) THEN "row" ELSE "totals"
           /\ d[3] = 1 <=> (s.pc = "row" /\ t.idx = s.idx + 1)
           /\ d[3] = 1 => RowError(s.df[s.idx + 1]) # NoError
           /\ d[3] = 0 /\ d # <<0, 0, 0>> => RowError(s.df[s.idx + 1]) = NoError

\* C21: every row of a batch is counted in exactly one outcome, so at the
\* end of the row loop items_imported + duplicates_skipped + rows_rejected is
\* the number of rows of the batch; a rejected or duplicate row never stops
\* the processing of the rows after it.
C21_EveryRowCountedOnce == []EveryRowCounted /\ [][OneOutcomePerRow]_vars

\* a committed import whose first row is rejected, whose second row is a
\* duplicate of a stored item, and whose third row is then imported
C21_Witness ==
    /\ ImportDone
    /\ Main.df = <<RowNegative, RowShirtAgain, RowJeans>>
    /\ FindTicket(pre[1], Slip101) # 0
    /\ Main.response.rows_rejected = 1
    /\ Main.response.duplicates_skipped = 1
    /\ Main.response.items_imported = 1

\* the tickets of the batch's cache that the batch constructed
ConstructedTickets == {k \in 1..Len(Main.cache) : Main.cache[k].id = 0}

\* the constructed ticket whose first item is still to be created: the one
\* of the row at its duplicate check
AwaitingItem(k) == Main.pc = "attach" /\ Main.cur = k

\* C22: every ticket constructed by an import has at least one item when
\* the batch commits: it is constructed for an accepted row only, that row
\* finds no item on it and so is not a duplicate, and the row's item is
\* created in the same pass; hence, from the empty store and with imports
\* only, no ticket of the store has an empty item list.
C22_CreatedTicketsHaveItems ==
    /\ \A k \in ConstructedTickets :
          LET t == Main.cache[k]
              i == FirstAcceptedRow(Main.df, t.slip_number)
          IN  /\ \E j \in AcceptedPositions(Main.df, RowsRead) :
                    RowSlip(Main.df[j]) = t.slip_number
              /\ i <= RowsRead
              /\ AwaitingItem(k) =>
                    (t.items # <<>> \/ (i = Main.idx + 1 /\ ~IsDuplicate(t, AcceptedRow(Main.df[i]))))
              /\ ~AwaitingItem(k) =>
                    /\ t.items # <<>>
                    /\ t.items[1].new
                    /\ t.items[1].item_type = AcceptedRow(Main.df[i]).item_type
                    /\ t.items[1].work_description
                          = AcceptedRow(Main.df[i]).work_description
                    /\ t.items[1].price = AcceptedRow(Main.df[i]).price
    /\ Main.tickets_created = Cardinality(ConstructedTickets)
    /\ Main.tickets_created <= Main.items_imported + (IF Main.pc = "attach" THEN 1 ELSE 0)
    /\ \A i \in 1..Len(db.tickets) : ItemsOf(db, i) # <<>>

\* a committed import into the empty store that constructed two tickets,
\* one of them named again by a later row that is a duplicate of its item
C22_Witness ==
    /\ ImportDone
    /\ pre[1] = EmptyDb
    /\ Main.response.tickets_created = 2
    /\ Main.response.duplicates_skipped = 1
    /\ Len(db.tickets) = 2
    /\ \A i \in 1..Len(db.tickets) : ItemsOf(db, i) # <<>>

====
